---------------------------- MODULE Spec2Model ----------------------------
(***************************************************************************)
(* GPS DriftCast: the descent/drift simulation engine.                     *)
(*                                                                         *)
(* JavaScript numbers are modelled as exact rationals [n, d] in lowest     *)
(* terms with d > 0; d = 0 encodes the non-finite values: n = 0 is NaN,    *)
(* n = 1 is +Infinity and n = -1 is -Infinity.                             *)
(***************************************************************************)
EXTENDS Integers, Sequences, FiniteSets, TLC

-----------------------------------------------------------------------------
(* Bounds of the model *)

\* Longest wind profile (number of WindAtAltitude samples) that is drawn.
MaxSamples == 3

\* Longest weathercock table drawn (entries at 0, 5, 10, ... MPH).
MaxTable == 3

\* Longest launch window (hours) a batch is run over.
MaxHours == 3

-----------------------------------------------------------------------------
(* JavaScript number arithmetic *)

Abs(i) == IF i < 0 THEN -i ELSE i

Sign(i) == IF i < 0 THEN -1 ELSE IF i > 0 THEN 1 ELSE 0

RECURSIVE GCD(_, _)
GCD(a, b) == IF b = 0 THEN a ELSE GCD(b, a % b)

NaN == [n |-> 0, d |-> 0]

\* The number n/d (d may be any integer; n/0 is NaN or a signed Infinity).
Frac(n, d) ==
    IF d = 0 THEN [n |-> Sign(n), d |-> 0]
    ELSE LET g == GCD(Abs(n), Abs(d))
         IN  [n |-> (Sign(d) * n) \div g, d |-> Abs(d) \div g]

R(i) == [n |-> i, d |-> 1]

IsNaN(x) == x.d = 0 /\ x.n = 0

\* x + y
RAdd(x, y) ==
    IF IsNaN(x) \/ IsNaN(y) THEN NaN
    ELSE IF x.d = 0 THEN (IF y.d = 0 /\ y.n # x.n THEN NaN ELSE x)
    ELSE IF y.d = 0 THEN y
    ELSE Frac(x.n * y.d + y.n * x.d, x.d * y.d)

RNeg(x) == [n |-> -x.n, d |-> x.d]

\* x - y
RSub(x, y) == RAdd(x, RNeg(y))

\* x * y
RMul(x, y) ==
    IF IsNaN(x) \/ IsNaN(y) THEN NaN
    ELSE IF x.d = 0 \/ y.d = 0
         THEN [n |-> Sign(x.n) * Sign(y.n), d |-> 0]
    ELSE LET g1 == GCD(Abs(x.n), y.d)
             g2 == GCD(Abs(y.n), x.d)
         IN  Frac((x.n \div g1) * (y.n \div g2), (x.d \div g2) * (y.d \div g1))

\* x / y
RDiv(x, y) ==
    IF IsNaN(x) \/ IsNaN(y) THEN NaN
    ELSE IF y.d = 0 THEN (IF x.d = 0 THEN NaN ELSE R(0))
    ELSE IF x.d = 0 THEN [n |-> x.n * (IF y.n < 0 THEN -1 ELSE 1), d |-> 0]
    ELSE IF y.n = 0 THEN [n |-> Sign(x.n), d |-> 0]
    ELSE RMul(x, [n |-> Sign(y.n) * y.d, d |-> Abs(y.n)])

\* x < y; every comparison with NaN is false.
RLt(x, y) ==
    IF IsNaN(x) \/ IsNaN(y) THEN FALSE
    ELSE IF x.d = 0 THEN x.n < 0 /\ ~(y.d = 0 /\ y.n < 0)
    ELSE IF y.d = 0 THEN y.n > 0
    ELSE x.n * y.d < y.n * x.d

RGt(x, y) == RLt(y, x)

\* x == y on numbers (NaN equals nothing, itself included).
REq(x, y) == ~IsNaN(x) /\ ~IsNaN(y) /\ x = y

RLe(x, y) == RLt(x, y) \/ REq(x, y)

RGe(x, y) == RLe(y, x)

\* Math.abs
RAbs(x) == [n |-> Abs(x.n), d |-> x.d]

\* floor of a finite number, as an integer
FloorInt(x) == x.n \div x.d

\* Math.round: the nearest integer, halves rounded towards +Infinity.
RRound(x) == IF x.d = 0 THEN x ELSE R(FloorInt(RAdd(x, Frac(1, 2))))


-----------------------------------------------------------------------------
(* JavaScript arrays are 0-indexed: At(a, i) is a[i]; Has(a, i) says a[i]  *)
(* is not undefined.                                                       *)

At(a, i) == a[i + 1]

Has(a, i) == 0 <= i /\ i < Len(a)

-----------------------------------------------------------------------------
(* geo.js: a GeoLocation is the launch pad followed by the moves applied   *)
(* to it, each a distance in metres along a bearing in degrees.            *)

LaunchPad == [moves |-> <<>>]

\* GeoLocation.getCopy / new GeoLocation(loc.latitude, loc.longitude)
GetCopy(loc) == [moves |-> loc.moves]

\* feetToMeters: a length in metres, kept as the product of its two factors
\* (TLC's integers are 32 bits wide and the multiplied-out conversion factors
\* of a drift overflow them).
FeetToMeters(feet) == [feet |-> feet, metersPerFoot |-> Frac(3048, 10000)]

\* A length in metres is 0 exactly when the length in feet is.
IsZeroLength(meters) == REq(meters.feet, R(0))

\* moveAlongBearing / moveAlongBearingKilometers: the point reached from loc
\* after `meters` along `bearing`; a move of distance 0 reaches loc itself.
MoveAlongBearing(loc, meters, bearing) ==
    IF IsZeroLength(meters) THEN loc
    ELSE [moves |-> Append(loc.moves, [meters |-> meters, bearing |-> bearing])]

-----------------------------------------------------------------------------
(* wind.js *)

KnotsToMph == Frac(115078, 100000)

KnotsToFps == Frac(168781, 100000)

\* The sentinel returned by the wind band queries on a lookup failure.
Sentinel == R(-1)

\* new WindAtAltitude(alt, speed, dir): the constructor throws on NaN.
WindAtAltitudeThrows(alt, speed, dir) == IsNaN(alt) \/ IsNaN(speed) \/ IsNaN(dir)

WindAtAltitude(alt, speed, dir) ==
    [altitude |-> alt, windSpeed |-> speed, windDirection |-> dir]

\* getWindBandPercentage(rocketAltitude, windData, floorIndex)
GetWindBandPercentage(rocketAltitude, windData, floorIndex) ==
    IF floorIndex < 0 \/ (floorIndex + 1) >= Len(windData) THEN Sentinel
    ELSE LET altitudeFloor == At(windData, floorIndex).altitude
             altitudeCeiling == At(windData, floorIndex + 1).altitude
             rangeHeight == RAbs(RSub(altitudeCeiling, altitudeFloor))
         IN  IF RLt(rocketAltitude, altitudeFloor) \/ RGt(rocketAltitude, altitudeCeiling)
             THEN Sentinel
             ELSE IF REq(R(0), rangeHeight) THEN Sentinel
             ELSE RDiv(RAbs(RSub(rocketAltitude, altitudeFloor)), rangeHeight)

\* getAverageWindSpeed(bandPercentage, windData, floorIndex)
GetAverageWindSpeed(bandPercentage, windData, floorIndex) ==
    IF RLt(bandPercentage, R(0)) \/ RGt(bandPercentage, R(1)) THEN Sentinel
    ELSE IF floorIndex < 0 \/ (floorIndex + 1) >= Len(windData) THEN Sentinel
    ELSE LET speedFloor == At(windData, floorIndex).windSpeed
             speedRange == RSub(At(windData, floorIndex + 1).windSpeed, speedFloor)
             speedAtAltitude == RAdd(speedFloor, RMul(bandPercentage, speedRange))
         IN  RDiv(RAdd(speedFloor, speedAtAltitude), R(2))

\* A halved direction sum left as it is.
NoWrap(half) == half

\* A halved direction sum brought back into [0, 360) (wind.js:356-358,
\* drift_simulation.js:132-134).
WrapDegrees(half) == IF RLt(half, R(0)) THEN RAdd(half, R(360)) ELSE half

\* The straddle-aware mean of two directions whose sum is `sum` and whose
\* difference is `diff` (wind.js:350-360, drift_simulation.js:126-135).
StraddleMean(sum, diff) ==
    IF RLt(RAbs(diff), R(180)) THEN RDiv(sum, R(2))
    ELSE WrapDegrees(RDiv(RSub(sum, R(360)), R(2)))

\* getAverageWindDirection(bandPercentage, windData, floorIndex)
GetAverageWindDirection(bandPercentage, windData, floorIndex) ==
    IF RLt(bandPercentage, R(0)) \/ RGt(bandPercentage, R(1)) THEN Sentinel
    ELSE IF floorIndex < 0 \/ (floorIndex + 1) >= Len(windData) THEN Sentinel
    ELSE LET directionA == At(windData, floorIndex).windDirection
             targetDirection ==
                 RAdd(directionA,
                      RMul(bandPercentage,
                           RSub(At(windData, floorIndex + 1).windDirection, directionA)))
         IN  StraddleMean(RAdd(directionA, targetDirection),
                          RSub(directionA, targetDirection))

\* The bearing driftWithWind projects along: the wind direction inverted.
DownwindBearing(windDirection) ==
    IF RLt(windDirection, R(180)) THEN RAdd(windDirection, R(180))
    ELSE RSub(windDirection, R(180))

\* The end of driftWithWind (wind.js:395): the location is moved by
\* driftDistance along bearing.
Drifted(rocketLocation, windSpeed, decentRate, descentDistance, driftDistance, bearing) ==
    [location |-> MoveAlongBearing(rocketLocation, FeetToMeters(driftDistance), bearing),
     moved |-> TRUE, decentRate |-> decentRate,
     descentDistance |-> descentDistance, windSpeed |-> windSpeed,
     driftDistance |-> driftDistance, bearing |-> bearing]

\* driftWithWind(rocketLocation, windSpeed, windDirection, decentRate,
\* descentDistance): the location after the call (the argument is moved in
\* place) and a record of what the call did.
DriftWithWind(rocketLocation, windSpeed, windDirection, decentRate, descentDistance) ==
    IF IsNaN(decentRate) \/ REq(R(0), decentRate)
    THEN [location |-> rocketLocation, moved |-> FALSE, decentRate |-> decentRate,
          descentDistance |-> descentDistance, windSpeed |-> windSpeed,
          driftDistance |-> NaN, bearing |-> NaN]
    ELSE Drifted(rocketLocation, windSpeed, decentRate, descentDistance,
                 RMul(RDiv(descentDistance, RAbs(decentRate)),
                      RMul(windSpeed, KnotsToFps)),
                 DownwindBearing(windDirection))

-----------------------------------------------------------------------------
(* wind.js: WindForecastData built from a winds-aloft response.  A         *)
(* response is [model, alts, speed, direction, groundSpd, groundElev]:     *)
(* alts is the altitude list (altFtRaw for RAP, altFt otherwise), speed    *)
(* and direction map an altitude to its parsed value, and may miss some.   *)

RECURSIVE SortedSeq(_)
\* Array.from(new Set(alts)).sort(...): the distinct altitudes, ascending.
SortedSeq(S) ==
    IF S = {} THEN <<>>
    ELSE LET m == CHOOSE x \in S : \A y \in S : x <= y
         IN  <<m>> \o SortedSeq(S \ {m})

Range(f) == {f[x] : x \in DOMAIN f}

RECURSIVE CollectWindData(_, _, _)
\* The constructor's loop over the sorted altitudes (wind.js:144-153):
\* altitudes without a speed or a direction are left out.
CollectWindData(altitudes, windSpeeds, windDirections) ==
    IF altitudes = <<>> THEN <<>>
    ELSE LET currentAlt == Head(altitudes)
             rest == CollectWindData(Tail(altitudes), windSpeeds, windDirections)
         IN  IF currentAlt \in DOMAIN windSpeeds /\ currentAlt \in DOMAIN windDirections
             THEN <<WindAtAltitude(R(currentAlt), windSpeeds[currentAlt],
                                   windDirections[currentAlt])>> \o rest
             ELSE rest

\* new WindForecastData(windJSON) throws when a sample's value is NaN.
WindForecastDataThrows(windJSON) ==
    \E a \in Range(windJSON.alts) :
        /\ a \in DOMAIN windJSON.speed /\ a \in DOMAIN windJSON.direction
        /\ WindAtAltitudeThrows(R(a), windJSON.speed[a], windJSON.direction[a])

\* new WindForecastData(windJSON)
WindForecastData(windJSON) ==
    [model |-> windJSON.model,
     windData |-> CollectWindData(SortedSeq(Range(windJSON.alts)),
                                  windJSON.speed, windJSON.direction),
     groundElevation |-> windJSON.groundElev,
     groundWindSpeed |-> windJSON.groundSpd,
     groundWindDirection |-> windJSON.groundSpd]

-----------------------------------------------------------------------------
(* launch.js *)

\* new LaunchPathPoint(alt, loc) throws on a NaN altitude.
LaunchPathPointThrows(alt) == IsNaN(alt)

\* new LaunchPathPoint(alt, loc): the point holds its own copy of loc.
LaunchPathPoint(alt, loc) == [altitude |-> alt, location |-> GetCopy(loc)]

\* new DescentData(alt, rate, speed, dir) throws on a NaN argument.
DescentDataThrows(alt, rate, speed, dir) ==
    IsNaN(alt) \/ IsNaN(rate) \/ IsNaN(speed) \/ IsNaN(dir)

DescentData(alt, rate, speed, dir) ==
    [altitude |-> alt, descentRate |-> rate, windSpeed |-> speed, windDirection |-> dir]

\* new LaunchSimulationData(ele, hour) throws on a NaN argument.
LaunchSimulationDataThrows(ele, hour) == IsNaN(ele) \/ IsNaN(hour)

LaunchSimulationData(ele, hour) ==
    [time |-> hour,
     elevation |-> IF RGe(ele, R(0)) THEN ele ELSE R(0),
     launchPath |-> <<>>]

\* LaunchSimulationData.addLaunchPathPoint(alt, launchPathPoint)
AddLaunchPathPoint(simulation, alt, loc) ==
    IF ~IsNaN(alt)
    THEN [simulation EXCEPT !.launchPath = Append(@, LaunchPathPoint(alt, loc))]
    ELSE simulation

\* LaunchSimulationData.getLandingLocation
GetLandingLocation(simulation) ==
    simulation.launchPath[Len(simulation.launchPath)].location

-----------------------------------------------------------------------------
(* rocket.js: RocketBase, RocketApogee and RocketWeathercocking.  A rocket *)
(* is [class, descentRateMain, mainDeployAltitude, descentRateDrogue,      *)
(* apogee, weathercockData].                                               *)

\* An entry whose distance and altitude changed places.
SwappedWindData(speed, dist, alt) ==
    [windSpeed |-> speed, upwindDistance |-> alt, apogee |-> dist]

\* new WeathercockWindData(speed, dist, alt)
WeathercockWindData(speed, dist, alt) ==
    [windSpeed |-> speed, upwindDistance |-> dist, apogee |-> alt]

\* A step in place of the interpolation: the target's first end throughout.
StepInterpolate(sourceValue, sourceLower, sourceUpper, targetLower, targetUpper) ==
    targetLower

\* linearInterpolate(sourceValue, sourceLower, sourceUpper, targetLower, targetUpper)
LinearInterpolate(sourceValue, sourceLower, sourceUpper, targetLower, targetUpper) ==
    IF REq(R(0), RSub(sourceUpper, sourceLower)) THEN targetLower
    ELSE RAdd(targetLower,
              RMul(RSub(sourceValue, sourceLower),
                   RDiv(RSub(targetUpper, targetLower), RSub(sourceUpper, sourceLower))))

\* The field initialisers of RocketBase and the constructors of its subclasses.
NewRocket(class, apogee, weathercockData) ==
    [class |-> class,
     descentRateMain |-> R(20),
     mainDeployAltitude |-> R(-1),
     descentRateDrogue |-> R(75),
     apogee |-> apogee,
     weathercockData |-> weathercockData]

\* RocketBase.setSingleDeployment(descentRate)
SetSingleDeployment(r, descentRate) ==
    [r EXCEPT !.descentRateMain = descentRate, !.mainDeployAltitude = R(-1)]

\* RocketBase.setDualDeployment(drogueDecentRate, mainDeployAlt, mainDescentRate)
SetDualDeployment(r, drogueDecentRate, mainDeployAlt, mainDescentRate) ==
    [r EXCEPT !.descentRateDrogue = drogueDecentRate,
              !.mainDeployAltitude = mainDeployAlt,
              !.descentRateMain = mainDescentRate]

\* RocketBase.usingDualDeployment
UsingDualDeployment(r) == RGt(r.mainDeployAltitude, R(0))

RECURSIVE FirstEntryAtOrAbove(_, _, _)
\* The loop of weathercockAdjustment (rocket.js:230-251): the first index
\* from `index` on whose entry has a wind speed >= windSpeed; Len(data) if none.
FirstEntryAtOrAbove(data, windSpeed, index) ==
    IF index >= Len(data) THEN Len(data)
    ELSE IF RLe(windSpeed, At(data, index).windSpeed) THEN index
    ELSE FirstEntryAtOrAbove(data, windSpeed, index + 1)

\* The baseline entry of a table.
BaselineEntry(data) == At(data, 0)

\* The entry RocketWeathercocking.weathercockAdjustment clamps to when the
\* wind is faster than the table covers (rocket.js:220-222).
ClampEntry(data) == At(data, Len(data) - 1)

\* RocketWeathercocking.weathercockAdjustment(rocketLocation, windData):
\* the LaunchPathPoint returned.
WeathercockAdjustment(r, rocketLocation, windData) ==
    LET data == r.weathercockData
        windSpeed == RMul(KnotsToMph, windData.groundWindSpeed)
        apogeeLocation == GetCopy(rocketLocation)
        bearing == windData.groundWindDirection
    IN  IF Len(data) = 0 THEN LaunchPathPoint(r.apogee, rocketLocation)
        ELSE IF RLe(windSpeed, At(data, 0).windSpeed)
        THEN LaunchPathPoint(At(data, 0).apogee,
                 IF RGt(At(data, 0).upwindDistance, R(0))
                 THEN MoveAlongBearing(apogeeLocation,
                          FeetToMeters(At(data, 0).upwindDistance), bearing)
                 ELSE apogeeLocation)
        ELSE IF RGt(windSpeed, At(data, Len(data) - 1).windSpeed)
        THEN LaunchPathPoint(ClampEntry(data).apogee,
                 MoveAlongBearing(apogeeLocation,
                     FeetToMeters(ClampEntry(data).upwindDistance), bearing))
        ELSE LET index == FirstEntryAtOrAbove(data, windSpeed, 1)
             IN  IF index >= Len(data) THEN LaunchPathPoint(R(-1), apogeeLocation)
                 ELSE LET hi == At(data, index)
                          lo == At(data, index - 1)
                          finalDistance ==
                              LinearInterpolate(windSpeed, hi.windSpeed, lo.windSpeed,
                                                hi.upwindDistance, lo.upwindDistance)
                          apogeeAltitude ==
                              LinearInterpolate(windSpeed, hi.windSpeed, lo.windSpeed,
                                                hi.apogee, lo.apogee)
                      IN  LaunchPathPoint(apogeeAltitude,
                              MoveAlongBearing(apogeeLocation,
                                  FeetToMeters(finalDistance), bearing))

\* getLaunchPath(launchTime, launchLocation, windData) of the three classes
GetLaunchPath(r, launchDetails, windData) ==
    IF r.class = "RocketBase"
    THEN <<LaunchPathPoint(launchDetails.altitude, launchDetails.location)>>
    ELSE IF r.class = "RocketApogee"
    THEN <<LaunchPathPoint(R(0), launchDetails.location),
           LaunchPathPoint(r.apogee, launchDetails.location)>>
    ELSE <<LaunchPathPoint(R(0), launchDetails.location),
           WeathercockAdjustment(r, launchDetails.location, windData)>>

\* getLaunchPath throws when a LaunchPathPoint is given a NaN altitude.
GetLaunchPathThrows(r, launchDetails, windData) ==
    IF r.class = "RocketBase" THEN LaunchPathPointThrows(launchDetails.altitude)
    ELSE IF r.class = "RocketApogee" THEN LaunchPathPointThrows(r.apogee)
    ELSE LaunchPathPointThrows(WeathercockAdjustment(r, launchDetails.location, windData).altitude)

-----------------------------------------------------------------------------
(* drift_simulation.js: driftSimulation *)

RECURSIVE FindWindIndex(_, _, _)
\* The search for the wind band of the apogee (drift_simulation.js:36-41):
\* the value of windIndex when the loop is left.
FindWindIndex(windData, rocketAltitude, windIndex) ==
    IF ~(windIndex < Len(windData)) THEN windIndex
    ELSE IF RGe(At(windData, windIndex).altitude, rocketAltitude) THEN windIndex
    ELSE FindWindIndex(windData, rocketAltitude, windIndex + 1)

\* A test that only fires past the end of the profile.
NoBandPastEnd(windData, windIndex) == Len(windData) < windIndex

\* The test that ends the simulation when no band holds the apogee
\* (drift_simulation.js:43).
NoBandFound(windData, windIndex) == Len(windData) = windIndex

\* The wind of a band at the share windBandPercentage of its height
\* (drift_simulation.js:59-60).
BandWinds(windBandPercentage, windData, windIndex) ==
    [percentage |-> windBandPercentage,
     windSpeed |-> GetAverageWindSpeed(windBandPercentage, windData, windIndex),
     windDirection |-> GetAverageWindDirection(windBandPercentage, windData, windIndex)]

\* The three wind band queries made for one altitude (drift_simulation.js:58-60).
QueryBand(altitude, windData, windIndex) ==
    BandWinds(GetWindBandPercentage(altitude, windData, windIndex), windData, windIndex)

\* descentList.push(new DescentData(...)): st after the push, or st marked
\* as having thrown when the constructor rejects an argument.
PushDescent(st, alt, rate, speed, dir) ==
    IF DescentDataThrows(alt, rate, speed, dir) THEN [st EXCEPT !.threw = TRUE]
    ELSE [st EXCEPT !.descentList = Append(@, DescentData(alt, rate, speed, dir))]

\* The last push of an iteration: the band's floor sample with the rate
\* that is current (drift_simulation.js:91-94).
PushBandFloor(st, lower) ==
    [PushDescent(st, lower.altitude, st.currentDescentRate,
                 lower.windSpeed, lower.windDirection)
        EXCEPT !.windIndex = @ - 1]

\* A loop that pushes the band's floor after the deployment step as well.
AfterDeploymentNoContinue(st, lower, mainDescentRate) ==
    PushBandFloor([st EXCEPT !.currentDescentRate = mainDescentRate], lower)

\* What the loop does after the step at the main deployment altitude was
\* pushed for a sample `lower` at exactly that altitude
\* (drift_simulation.js:80-81): the main rate becomes current and the rest
\* of the iteration, the push of the band's floor, is skipped.
AfterDeploymentAtSample(st, lower, mainDescentRate) ==
    [st EXCEPT !.currentDescentRate = mainDescentRate, !.windIndex = @ - 1]

\* The step pushed for a main deployment inside a band, with the winds q
\* interpolated at the deployment altitude (drift_simulation.js:84-88).
PushDeployment(st, q, mainDeployAltitude, mainDescentRate) ==
    [PushDescent(st, mainDeployAltitude, mainDescentRate, q.windSpeed, q.windDirection)
        EXCEPT !.queries = Append(@, q), !.currentDescentRate = mainDescentRate]

\* The push of the band's floor, reached unless an exception left the loop.
PushBandFloorUnlessThrown(st, lower) ==
    IF st.threw THEN st ELSE PushBandFloor(st, lower)

RECURSIVE DescentLoop(_, _, _, _)
\* The loop over the wind bands from the apogee's band down to the ground
\* (drift_simulation.js:64-95).  st is [windIndex, currentDescentRate,
\* descentList, rocketAltitude, queries, threw].
DescentLoop(windData, mainDeployAltitude, mainDescentRate, st) ==
    IF st.threw \/ ~(st.windIndex >= 0) THEN st
    ELSE IF ~Has(windData, st.windIndex + 1) \/ ~Has(windData, st.windIndex)
    THEN [st EXCEPT !.threw = TRUE]
    ELSE
    LET lower == At(windData, st.windIndex)
        upper == At(windData, st.windIndex + 1)
    IN  IF RLe(RSub(upper.altitude, lower.altitude), R(0))
        THEN DescentLoop(windData, mainDeployAltitude, mainDescentRate,
                 [st EXCEPT !.rocketAltitude = lower.altitude, !.windIndex = @ - 1])
        ELSE IF REq(lower.altitude, mainDeployAltitude)
        THEN DescentLoop(windData, mainDeployAltitude, mainDescentRate,
                 AfterDeploymentAtSample(
                     PushDescent(st, mainDeployAltitude, mainDescentRate,
                                 lower.windSpeed, lower.windDirection),
                     lower, mainDescentRate))
        ELSE IF RLt(lower.altitude, mainDeployAltitude)
                /\ RGt(upper.altitude, mainDeployAltitude)
        THEN DescentLoop(windData, mainDeployAltitude, mainDescentRate,
                 PushBandFloorUnlessThrown(
                     PushDeployment(st,
                         QueryBand(mainDeployAltitude, windData, st.windIndex),
                         mainDeployAltitude, mainDescentRate),
                     lower))
        ELSE DescentLoop(windData, mainDeployAltitude, mainDescentRate,
                 PushBandFloor(st, lower))

\* The step at the apogee, with the winds q of its band
\* (drift_simulation.js:55-61).
StartDescent(q, windIndex, startRate, rocketAltitude) ==
    PushDescent([windIndex |-> windIndex, currentDescentRate |-> startRate,
                 descentList |-> <<>>, rocketAltitude |-> rocketAltitude,
                 queries |-> <<q>>, threw |-> FALSE],
                rocketAltitude, startRate, q.windSpeed, q.windDirection)

\* The descent schedule (drift_simulation.js:52-95): the step at the apogee,
\* then the loop over the bands below it.
BuildDescentList(windData, rocketAltitude, windIndex, startRate, mainDeployAltitude, mainDescentRate) ==
    DescentLoop(windData, mainDeployAltitude, mainDescentRate,
        StartDescent(QueryBand(rocketAltitude, windData, windIndex),
                     windIndex, startRate, rocketAltitude))

\* The rate of the step a segment ends at.
SegmentEndRate(descentList, x) == At(descentList, x).descentRate

\* The rate a segment is integrated with: the rate of the step the segment
\* starts from (drift_simulation.js:104, 143).
SegmentRate(descentList, x) == At(descentList, x - 1).descentRate

\* The call of driftWithWind for the segment that ends at step st.x
\* (drift_simulation.js:123-137).
SegmentDrift(descentList, st) ==
    LET cur == At(descentList, st.x)
        prev == At(descentList, st.x - 1)
    IN  DriftWithWind(st.rocketLocation,
                      RDiv(RAdd(cur.windSpeed, prev.windSpeed), R(2)),
                      StraddleMean(RAdd(cur.windDirection, prev.windDirection),
                                   RSub(prev.windDirection, cur.windDirection)),
                      SegmentRate(descentList, st.x),
                      RSub(prev.altitude, cur.altitude))

\* The rest of a turn of the loop (drift_simulation.js:140-143): the moved
\* location is appended to the path at the altitude of step cur.
AfterDrift(st, cur, drift) ==
    [x |-> st.x + 1,
     rocketLocation |-> drift.location,
     simulation |-> AddLaunchPathPoint(st.simulation, cur.altitude, drift.location),
     drifts |-> Append(st.drifts, drift)]

RECURSIVE IntegrateLoop(_, _)
\* The loop over the descent steps (drift_simulation.js:121-144).  st is
\* [x, rocketLocation, simulation, drifts]; drifts records each call of
\* driftWithWind.
IntegrateLoop(descentList, st) ==
    IF ~(st.x < Len(descentList)) THEN st
    ELSE IntegrateLoop(descentList,
             AfterDrift(st, At(descentList, st.x), SegmentDrift(descentList, st)))

RECURSIVE AddLaunchPath(_, _)
\* launchPath.forEach(... addLaunchPathPoint ...) (drift_simulation.js:118)
AddLaunchPath(simulation, launchPath) ==
    IF launchPath = <<>> THEN simulation
    ELSE AddLaunchPath(AddLaunchPathPoint(simulation, Head(launchPath).altitude,
                                          Head(launchPath).location),
                       Tail(launchPath))

NoSimulation == [time |-> R(0), elevation |-> R(0), launchPath |-> <<>>]

\* What a call of driftSimulation ends with: outcome is "null" (no result),
\* "TypeError" (an exception leaves the function) or "result".
Ended(outcome, simulation, descentList, queries, drifts, apogee) ==
    [outcome |-> outcome, simulation |-> simulation, descentList |-> descentList,
     queries |-> queries, drifts |-> drifts, apogee |-> apogee]

\* return launchSimulation (drift_simulation.js:146), after the loop over
\* the descent steps ended in `done`.
Landed(done, built, rocketAltitude) ==
    Ended("result", done.simulation, built.descentList, built.queries,
          done.drifts, rocketAltitude)

\* driftSimulation(launchDetails, launchTime, rocketDetails, windForecast);
\* hour is launchTime.getHours().
DriftSimulation(launchDetails, hour, rocketDetails, windForecast) ==
    LET windData == windForecast.windData
        startRate == IF UsingDualDeployment(rocketDetails)
                     THEN rocketDetails.descentRateDrogue
                     ELSE rocketDetails.descentRateMain
        \* lines 97-146: the schedule is integrated
        Integrate(launchPath, rocketLocation, rocketAltitude, built) ==
            IF built.threw
            THEN Ended("TypeError", NoSimulation, built.descentList, built.queries,
                       <<>>, rocketAltitude)
            ELSE IF Len(built.descentList) < 2
            THEN Ended("null", NoSimulation, built.descentList, built.queries,
                       <<>>, rocketAltitude)
            ELSE IF LaunchSimulationDataThrows(launchDetails.altitude, hour)
            THEN Ended("TypeError", NoSimulation, built.descentList, built.queries,
                       <<>>, rocketAltitude)
            ELSE Landed(IntegrateLoop(built.descentList,
                            [x |-> 1, rocketLocation |-> rocketLocation,
                             simulation |-> AddLaunchPath(
                                 LaunchSimulationData(launchDetails.altitude, hour),
                                 launchPath),
                             drifts |-> <<>>]),
                        built, rocketAltitude)
        \* lines 36-95: the band of the apogee is found and the schedule built
        Descend(launchPath, rocketLocation, rocketAltitude) ==
            LET found == FindWindIndex(windData, rocketAltitude, 1)
            IN  IF NoBandFound(windData, found)
                THEN Ended("null", NoSimulation, <<>>, <<>>, <<>>, rocketAltitude)
                ELSE Integrate(launchPath, rocketLocation, rocketAltitude,
                         BuildDescentList(windData, rocketAltitude, found - 1, startRate,
                                          rocketDetails.mainDeployAltitude,
                                          rocketDetails.descentRateMain))
        \* lines 19-29: the last point of the launch path is the apogee
        FromLaunchPath(launchPath) ==
            IF Len(launchPath) = 0
            THEN Ended("null", NoSimulation, <<>>, <<>>, <<>>, NaN)
            ELSE Descend(launchPath,
                         GetCopy(launchPath[Len(launchPath)].location),
                         launchPath[Len(launchPath)].altitude)
    IN  IF GetLaunchPathThrows(rocketDetails, launchDetails, windForecast)
        THEN Ended("TypeError", NoSimulation, <<>>, <<>>, <<>>, NaN)
        ELSE FromLaunchPath(GetLaunchPath(rocketDetails, launchDetails, windForecast))

-----------------------------------------------------------------------------
(* The inputs drawn *)

\* Altitudes (feet) a response lists.
Altitudes == {0, 500, 1000, 1500}

\* The (speed in knots, direction in degrees) pairs a response holds.
Winds == {<<0, 90>>, <<10, 350>>, <<10, 10>>}

\* Ground wind speeds (knots) a response holds.
GroundSpeeds == {0, 20}

SeqsUpTo(S, n) == UNION {[1..k -> S] : k \in 0..n}

\* The winds-aloft responses drawn: any altitude list (unsorted, with
\* repeats), one wind per altitude.
WindJSONs ==
    {[model |-> "RAP", alts |-> a,
      speed |-> [x \in Altitudes |-> R(w[x][1])],
      direction |-> [x \in Altitudes |-> R(w[x][2])],
      groundSpd |-> R(g), groundElev |-> R(0)] :
        a \in SeqsUpTo(Altitudes, MaxSamples), w \in [Altitudes -> Winds],
        g \in GroundSpeeds}

WindForecasts == {WindForecastData(j) : j \in WindJSONs}

\* Apogees (feet) entered for a rocket.
Apogees == {250, 1000, 1250}

\* Main deployment altitudes (feet) given to setDualDeployment.
DeployAltitudes == {500, 750, 1000}

MainRates == {0, 20}

DrogueRates == {0, 75}

\* The weathercock tables drawn for an apogee: the baseline entry at 0 MPH
\* and entries at 5, 10, ... MPH, each flying 50 ft lower and further upwind.
WeathercockTable(apogee, len) ==
    [i \in 1..len |-> WeathercockWindData(R(5 * (i - 1)), R(100 * (i - 1) * (i - 1)),
                                          R(apogee - 50 * (i - 1)))]

Rockets ==
    {NewRocket("RocketApogee", R(a), <<>>) : a \in Apogees}
    \cup {NewRocket("RocketWeathercocking", R(a), WeathercockTable(a, len)) :
            a \in Apogees, len \in 1..MaxTable}

\* The launch site handed to driftSimulation and the launch hour.
LaunchDetails == [altitude |-> R(0), location |-> LaunchPad]

LaunchHour == R(9)

-----------------------------------------------------------------------------
(* The state: a rocket being set up, the forecast of the hour and what     *)
(* driftSimulation ended with.                                             *)

VARIABLES
    pc,             \* where the program is
    rocketDetails,  \* the rocket handed to driftSimulation
    windForecast,   \* the forecast of the hour
    result,         \* what the simulation of the hour ended with
    apogeePoint,    \* the LaunchPathPoint weathercockAdjustment returned
    locals,         \* the validated inputs held by calculateLandingPlots
    currentOffset,  \* the hour offset calculateLandingPlots is at
    simulationList, \* the results calculateLandingPlots has collected
    hourLog,        \* what became of each hour of the window, in order
    args,           \* the arguments of a function called on its own
    value,          \* what that function returned
    runs,           \* the calls of the click listener of btnCalculateDrift, oldest first
    page,           \* the elements of the page the listener writes
    heap,           \* the GeoLocation objects and who refers to them
    sites,          \* the launch-site database, selector, fields and requests
    times           \* the launch date and times entered and the last window calculated

vars == <<pc, rocketDetails, windForecast, result, apogeePoint,
          locals, currentOffset, simulationList, hourLog, args, value,
          runs, page, heap, sites, times>>

batchVars == <<locals, currentOffset, simulationList, hourLog>>

\* The variables the simulations leave alone.
restVars == <<heap, sites, times>>

otherVars == <<args, value, runs, page, restVars>>

NoResult == Ended("none", NoSimulation, <<>>, <<>>, <<>>, NaN)

NoPoint == LaunchPathPoint(NaN, LaunchPad)

NoLocals ==
    [endHourOffset |-> 0, rocketApogee |-> NaN, launchSiteElevation |-> NaN,
     weathercockData |-> <<>>, applyWeathercockAdjustment |-> FALSE,
     mainDescentRate |-> NaN, usingDualDeployoment |-> FALSE,
     mainDeployAltitude |-> R(-1), drogueDecentRate |-> NaN]

\* index.html as it is loaded: the status line, the results and the save
\* buttons are hidden, the buttons disabled, and main.js holds an empty
\* launchSimulationList (index.html:136-162, part_005:64).
LoadedPage ==
    [saveButtons |-> [disabled |-> TRUE, hidden |-> TRUE],
     mapHidden |-> TRUE,
     resultHidden |-> TRUE,
     status |-> [text |-> "Calculating drift...", hidden |-> TRUE],
     launchSimulationList |-> [run |-> 0, list |-> <<>>],
     displayed |-> [run |-> 0, list |-> <<>>]]

\* The calculate button was never clicked.
PageIdle ==
    /\ runs = <<>>
    /\ page = LoadedPage

\* No function is called on its own.
\* No GeoLocation object is followed.
NoHeap ==
    [cells |-> <<>>, phase |-> "idle", hours |-> 0, launchPath |-> <<>>,
     rocketLocation |-> 0, descentList |-> <<>>, x |-> 0, path |-> <<>>,
     results |-> <<>>]

\* The launch-site part of the page as index.html has it: no option, empty
\* fields, the hidden fields at their defaults.
Blank == 1000
NotANumber == 1001

LoadedFields ==
    [name |-> "", latitude |-> Blank, longitude |-> Blank, elevation |-> -1,
     waiverLatitude |-> Blank, waiverLongitude |-> Blank, waiverRadius |-> Blank,
     waiverAltitude |-> 0]

\* The option the page's selector is written with (index.html:28-30)
NoSavesOption == "no_saves"

\* The launch sites of a page loaded with an empty database: the selector
\* holds the option of index.html and has it selected.
NoSites ==
    [db |-> {}, launchSiteNames |-> <<>>, options |-> <<NoSavesOption>>, selectedIndex |-> 0,
     fields |-> LoadedFields, status |-> "NOSAVES", requests |-> <<>>,
     lookups |-> <<>>, after |-> "", steps |-> 0]

\* The launch date (days from today) and the texts of the two time inputs,
\* each the two digits of its hour, with the offsets of the forecasts
\* the last calculation asked for.
NoTimes == [launchDate |-> 0, startTime |-> <<>>, endTime |-> <<>>, outcome |-> "none", requested |-> <<>>]

RestIdle == heap = NoHeap /\ sites = NoSites /\ times = NoTimes

OthersIdle ==
    /\ args = <<>>
    /\ value = NaN
    /\ PageIdle
    /\ RestIdle

\* No batch is running.
BatchIdle ==
    /\ locals = NoLocals
    /\ currentOffset = 0
    /\ simulationList = <<>>
    /\ hourLog = <<>>

Init ==
    /\ pc = "new"
    /\ rocketDetails \in Rockets
    /\ windForecast \in WindForecasts
    /\ result = NoResult
    /\ apogeePoint = NoPoint
    /\ BatchIdle
    /\ OthersIdle

\* rocketDetails.setSingleDeployment(descentRate), called on the new rocket.
CallSetSingleDeployment ==
    /\ pc = "new"
    /\ \E rate \in MainRates :
           rocketDetails' = SetSingleDeployment(rocketDetails, R(rate))
    /\ pc' = "configured"
    /\ UNCHANGED <<windForecast, result, apogeePoint, batchVars>>
    /\ UNCHANGED otherVars

\* rocketDetails.setDualDeployment(drogueDecentRate, mainDeployAlt,
\* mainDescentRate), called on the new rocket.
CallSetDualDeployment ==
    /\ pc = "new"
    /\ \E drogue \in DrogueRates, alt \in DeployAltitudes, main \in MainRates :
           rocketDetails' = SetDualDeployment(rocketDetails, R(drogue), R(alt), R(main))
    /\ pc' = "configured"
    /\ UNCHANGED <<windForecast, result, apogeePoint, batchVars>>
    /\ UNCHANGED otherVars

\* driftSimulation(launchDetails, launchTime, rocketDetails, windForecast),
\* for a rocket with its default recovery or a configured one.
CallDriftSimulation ==
    /\ pc \in {"new", "configured"}
    /\ result' = DriftSimulation(LaunchDetails, LaunchHour, rocketDetails, windForecast)
    /\ pc' = "done"
    /\ UNCHANGED <<rocketDetails, windForecast, apogeePoint, batchVars>>
    /\ UNCHANGED otherVars

Next == CallSetSingleDeployment \/ CallSetDualDeployment \/ CallDriftSimulation

Spec == Init /\ [][Next]_vars

-----------------------------------------------------------------------------
(* Notions the properties of driftSimulation are stated with *)

\* A call of driftSimulation has ended.
Done == pc = "done"

Samples == windForecast.windData

SampleAltitudes == {Samples[i].altitude : i \in DOMAIN Samples}

\* The altitude of the highest and of the lowest wind sample.
HighestSample == CHOOSE a \in SampleAltitudes : \A b \in SampleAltitudes : RLe(b, a)

LowestSample == CHOOSE a \in SampleAltitudes : \A b \in SampleAltitudes : RLe(a, b)

\* A wind band query of the call signalled a failure with the sentinel.
LookupFailed ==
    \E i \in DOMAIN result.queries :
        \/ result.queries[i].percentage = Sentinel
        \/ result.queries[i].windSpeed = Sentinel
        \/ result.queries[i].windDirection = Sentinel

\* The flight path of the result.
Path == result.simulation.launchPath

Steps == result.descentList

\* C1: when the apogee lies strictly above the highest wind sample, the
\* call of driftSimulation returns null and throws nothing.
C1_ApogeeAboveForecastIsSkipped ==
    (Done /\ Samples # <<>> /\ RGt(result.apogee, HighestSample))
        => result.outcome = "null"

C1_Witness ==
    /\ Done /\ Samples # <<>> /\ Len(Samples) >= 2
    /\ RGt(result.apogee, HighestSample)
    /\ result.outcome = "null"

\* C2: when a wind band query of the call signals a failure with the
\* sentinel, the call produces no result (so no descent step of a result
\* carries the sentinel as its wind speed or direction).
C2_LookupFailureSkipsHour == (Done /\ LookupFailed) => result.outcome # "result"

\* C3: no result holds a descent segment integrated with a descent rate
\* that is zero or not a number.
C3_InvalidRateSkipsHour ==
    (Done /\ result.outcome = "result") =>
        \A i \in DOMAIN result.drifts :
            ~IsNaN(result.drifts[i].decentRate) /\ ~REq(result.drifts[i].decentRate, R(0))

\* Every wind sample has speed 0.
ZeroWind == \A i \in DOMAIN Samples : REq(Samples[i].windSpeed, R(0))

\* C5: in zero wind and without weathercocking, every descent segment of a
\* result drifts by 0 and the landing point is the launch point.
C5_ZeroWindLandsAtLaunch ==
    (Done /\ ZeroWind /\ rocketDetails.class = "RocketApogee" /\ result.outcome = "result")
        => /\ \A i \in DOMAIN result.drifts :
                  result.drifts[i].moved => REq(result.drifts[i].driftDistance, R(0))
           /\ GetLandingLocation(result.simulation) = LaunchPad

\* All samples have the same direction, a whole number of degrees in
\* [0, 360), and the same speed, which is not 0.
UniformWind ==
    /\ Samples # <<>>
    /\ Samples[1].windDirection.d = 1
    /\ RLe(R(0), Samples[1].windDirection) /\ RLt(Samples[1].windDirection, R(360))
    /\ \A i \in DOMAIN Samples :
           /\ Samples[i].windDirection = Samples[1].windDirection
           /\ Samples[i].windSpeed = Samples[1].windSpeed
           /\ ~REq(Samples[i].windSpeed, R(0))

ApogeeInRange ==
    /\ Samples # <<>>
    /\ RLe(LowestSample, result.apogee) /\ RLe(result.apogee, HighestSample)

RECURSIVE TotalDrift(_)
\* The distance projected downwind over all segments, in knot-seconds (the
\* drift distances in feet divided by the knots-to-ft/s factor).
TotalDrift(drifts) ==
    IF drifts = <<>> THEN R(0)
    ELSE RAdd(IF Head(drifts).moved
              THEN RDiv(Head(drifts).driftDistance, KnotsToFps) ELSE R(0),
              TotalDrift(Tail(drifts)))

\* C6: in a uniform wind from direction D, with the apogee inside the
\* profile's altitude range, every descent segment of a result is projected
\* along the bearing (D + 180) mod 360, which lies in [0, 360), and (without
\* weathercocking) the landing point lies downwind of the launch point.
C6_UniformWindDriftsDownwind ==
    (Done /\ UniformWind /\ ApogeeInRange /\ result.outcome = "result") =>
        /\ \A i \in DOMAIN result.drifts :
               /\ result.drifts[i].moved
               /\ result.drifts[i].bearing
                      = R((FloorInt(Samples[1].windDirection) + 180) % 360)
               /\ RLe(R(0), result.drifts[i].bearing)
               /\ RLt(result.drifts[i].bearing, R(360))
        /\ rocketDetails.class = "RocketApogee" => RGt(TotalDrift(result.drifts), R(0))

\* C7: the flight path of every result starts at altitude 0 at the launch
\* location, continues with the apogee, descends strictly from there and
\* ends at altitude 0.
C7_PathShape ==
    (Done /\ result.outcome = "result") =>
        /\ Len(Path) >= 3
        /\ Path[1].altitude = R(0) /\ Path[1].location = LaunchPad
        /\ Path[2].altitude = result.apogee
        /\ \A i \in 2..(Len(Path) - 1) : RGt(Path[i].altitude, Path[i + 1].altitude)
        /\ Path[Len(Path)].altitude = R(0)

\* The main deployment altitude is the altitude of a wind sample below the apogee.
DeploymentAtSampleBelowApogee ==
    /\ UsingDualDeployment(rocketDetails)
    /\ rocketDetails.mainDeployAltitude \in SampleAltitudes
    /\ RLt(rocketDetails.mainDeployAltitude, result.apogee)

\* C9: with the main deployment at the altitude of a wind sample below the
\* apogee, the schedule has exactly one step at that altitude, the steps at
\* and below it carry the main rate and the steps above it the drogue rate.
C9_DeploymentAtSample ==
    (Done /\ DeploymentAtSampleBelowApogee /\ Steps # <<>> /\ result.outcome = "result") =>
        /\ Cardinality({i \in DOMAIN Steps :
                           Steps[i].altitude = rocketDetails.mainDeployAltitude}) = 1
        /\ \A i \in DOMAIN Steps :
               IF RLe(Steps[i].altitude, rocketDetails.mainDeployAltitude)
               THEN Steps[i].descentRate = rocketDetails.descentRateMain
               ELSE Steps[i].descentRate = rocketDetails.descentRateDrogue

C9_Witness ==
    /\ Done /\ DeploymentAtSampleBelowApogee /\ result.outcome = "result"
    /\ rocketDetails.descentRateMain # rocketDetails.descentRateDrogue
    /\ \E i, j, k \in DOMAIN Steps :
           /\ i < j /\ j < k
           /\ Steps[j].altitude = rocketDetails.mainDeployAltitude
           /\ Steps[i].descentRate = rocketDetails.descentRateDrogue
           /\ Steps[k].descentRate = rocketDetails.descentRateMain

-----------------------------------------------------------------------------
(* main.js: the weathercock tables loadWeathercockData builds, and         *)
(* RocketWeathercocking.weathercockAdjustment called on them               *)

\* The wind speeds (MPH) an entry is read for, in the order they are read.
TableSpeeds == <<5, 10, 15, 20>>

\* What the form holds for one speed: no usable values ("none"), a distance
\* of 0 with the entered apogee ("same"), or a flight further upwind that
\* ends lower ("further").
EntryInputs == {"none", "same", "further"}

\* getWeathercockInputValues(windSpeed, speedId) for an input that is usable.
GetWeathercockInputValues(windSpeed, input, apogee) ==
    IF input = "same" THEN WeathercockWindData(R(windSpeed), R(0), R(apogee))
    ELSE WeathercockWindData(R(windSpeed), R(20 * windSpeed), R(apogee - 10 * windSpeed))

RECURSIVE PushEntries(_, _, _)
\* The pushes of the entries that are usable, in the order of the speeds.
PushEntries(speeds, inputs, apogee) ==
    IF speeds = <<>> THEN <<>>
    ELSE LET rest == PushEntries(Tail(speeds), inputs, apogee)
         IN  IF inputs[Head(speeds)] = "none" THEN rest
             ELSE <<GetWeathercockInputValues(Head(speeds), inputs[Head(speeds)], apogee)>>
                      \o rest

\* The table loadWeathercockData fills for a valid apogee: the entry for no
\* wind, then the usable entries.
LoadWeathercockData(apogee, inputs) ==
    <<WeathercockWindData(R(0), R(0), R(apogee))>>
        \o PushEntries(TableSpeeds, inputs, apogee)

\* The inputs that give a table of at most MaxTable entries.
TableInputs ==
    {inputs \in [Range(TableSpeeds) -> EntryInputs] :
        Cardinality({x \in Range(TableSpeeds) : inputs[x] # "none"}) < MaxTable}

WeathercockRockets ==
    {NewRocket("RocketWeathercocking", R(1000), <<>>)}
    \cup {NewRocket("RocketWeathercocking", R(1000),
                    LoadWeathercockData(1000, inputs)) : inputs \in TableInputs}

\* Ground wind speeds (knots) of the forecasts: 0, 3.5, 5.8, 9.2, 11.5, 15,
\* 20.7 and 23 MPH.
GroundWinds == {0, 3, 5, 8, 10, 13, 18, 20}

\* A response that only tells the wind at the ground.
GroundWindJSON(groundSpd) ==
    [model |-> "RAP", alts |-> <<>>,
     speed |-> [x \in Altitudes |-> R(0)],
     direction |-> [x \in Altitudes |-> R(0)],
     groundSpd |-> R(groundSpd), groundElev |-> R(0)]

\* A response whose ground wind is 5 MPH to the digit: 5 / 1.15078 knots.
FiveMphJSON == [GroundWindJSON(0) EXCEPT !.groundSpd = RDiv(R(5), KnotsToMph)]

InitWeathercock ==
    /\ pc = "new"
    /\ rocketDetails \in WeathercockRockets
    /\ windForecast \in {WindForecastData(GroundWindJSON(g)) : g \in GroundWinds}
                        \cup {WindForecastData(FiveMphJSON)}
    /\ result = NoResult
    /\ apogeePoint = NoPoint
    /\ BatchIdle
    /\ OthersIdle

\* rocketDetails.weathercockAdjustment(launchLocation.location, windData)
CallWeathercockAdjustment ==
    /\ pc = "new"
    /\ apogeePoint' = WeathercockAdjustment(rocketDetails, LaunchPad, windForecast)
    /\ pc' = "done"
    /\ UNCHANGED <<rocketDetails, windForecast, result, batchVars>>
    /\ UNCHANGED otherVars

NextWeathercock == CallWeathercockAdjustment

SpecWeathercock == InitWeathercock /\ [][NextWeathercock]_vars

-----------------------------------------------------------------------------
(* main.js: calculateLandingPlots, the batch over the hours of a launch    *)
(* window.  A form is the values of the page's inputs, numbers as parseInt *)
(* and parseFloat read them (NaN for text that is not a number).           *)

\* weathercockAdjustment(apogeeLocation, windDirection, windSpeed,
\* weathercockData) of main.js: the altitude returned and apogeeLocation
\* after the call (it is moved in place).
MainWeathercockAdjustment(apogeeLocation, windDirection, windSpeed, weathercockData) ==
    LET index == FirstEntryAtOrAbove(weathercockData, windSpeed, 1)
    IN  IF index >= Len(weathercockData)
        THEN [apogeeAltitude |-> R(-1), apogeeLocation |-> apogeeLocation]
        ELSE LET hi == At(weathercockData, index)
                 lo == At(weathercockData, index - 1)
                 finalDistance ==
                     LinearInterpolate(windSpeed, hi.windSpeed, lo.windSpeed,
                                       hi.upwindDistance, lo.upwindDistance)
             IN  [apogeeAltitude |->
                      LinearInterpolate(windSpeed, hi.windSpeed, lo.windSpeed,
                                        hi.apogee, lo.apogee),
                  apogeeLocation |->
                      MoveAlongBearing(apogeeLocation, FeetToMeters(finalDistance),
                                       windDirection)]

\* The checks that make calculateLandingPlots return the empty list before
\* any forecast is fetched (main.js:1375-1378, 1395-1398).
ReturnsBeforeLoop(form) ==
    \/ IsNaN(form.rocketApogee)
    \/ IsNaN(form.mainDescentRate) \/ RLe(form.mainDescentRate, R(0))

\* The value loadWeathercockData returns (main.js:1244-1285).
ApplyWeathercockAdjustment(form) ==
    /\ form.applyWeathercocking
    /\ ~IsNaN(form.rocketApogee)
    /\ ~RLe(form.rocketApogee, R(0))

\* usingDualDeployoment after the checks of main.js:1405-1427.
UsingDualDeployoment(form) ==
    /\ form.dualDeploy
    /\ ~IsNaN(RAbs(form.mainEventAltitude))
    /\ ~IsNaN(RAbs(form.drogueDecentRate))
    /\ ~RGt(RAbs(form.mainEventAltitude), form.rocketApogee)
    /\ ~REq(R(0), RAbs(form.mainEventAltitude))
    /\ ~REq(R(0), RAbs(form.drogueDecentRate))

\* The local variables of calculateLandingPlots when its loop is entered
\* (main.js:1374-1434).
ReadInputs(form) ==
    [endHourOffset |-> form.endHourOffset,
     rocketApogee |-> form.rocketApogee,
     launchSiteElevation |-> form.launchSiteElevation,
     weathercockData |-> IF ApplyWeathercockAdjustment(form)
                         THEN form.weathercockData ELSE <<>>,
     applyWeathercockAdjustment |-> ApplyWeathercockAdjustment(form),
     mainDescentRate |-> form.mainDescentRate,
     usingDualDeployoment |-> UsingDualDeployoment(form),
     mainDeployAltitude |-> IF UsingDualDeployoment(form)
                            THEN RAbs(form.mainEventAltitude) ELSE R(-1),
     drogueDecentRate |-> IF UsingDualDeployoment(form)
                          THEN RAbs(form.drogueDecentRate) ELSE form.mainDescentRate]

\* getWindPredictionData: null when the request fails or the constructor
\* of WindForecastData throws, the forecast otherwise.
GetWindPredictionData(response) ==
    IF ~response.ok \/ WindForecastDataThrows(response.json)
    THEN [isNull |-> TRUE, forecast |-> WindForecastData(GroundWindJSON(0))]
    ELSE [isNull |-> FALSE, forecast |-> WindForecastData(response.json)]

RECURSIVE SumFirst(_, _)
\* The sum of the first count numbers of a list (main.js:1476-1479).
SumFirst(numbers, count) ==
    IF count = 0 THEN R(0)
    ELSE RAdd(SumFirst(numbers, count - 1), numbers[count])

\* An hour without a simulation that is taken for a result all the same.
PushAnyway(descentList, queries, rocketAltitude) ==
    Ended("result", NoSimulation, descentList, queries, <<>>, rocketAltitude)

\* The hour no result is made for: the loop continues.
Continue(descentList, queries, rocketAltitude) ==
    Ended("continue", NoSimulation, descentList, queries, <<>>, rocketAltitude)

\* The mean of the first count values of a field of the wind samples
\* (main.js:1476-1485).
GroundMean(values, count) == RDiv(SumFirst(values, count), R(count))

\* One turn of the loop of calculateLandingPlots after the forecast of the
\* hour has arrived (main.js:1439-1621); l holds the local variables.
SimulateHour(l, fetched, offset) ==
    LET windData == fetched.forecast.windData
        launchSiteElevation ==
            IF IsNaN(l.launchSiteElevation) \/ RLt(l.launchSiteElevation, R(0))
            THEN fetched.forecast.groundElevation
            ELSE l.launchSiteElevation
        wanted == IF fetched.forecast.model = "RAP"
                  THEN (IF RLe(l.rocketApogee, R(1000)) THEN 2 ELSE 4)
                  ELSE 1
        altitudeCount == IF wanted >= Len(windData) THEN Len(windData) ELSE wanted
        startRate == IF l.usingDualDeployoment
                     THEN l.drogueDecentRate ELSE l.mainDescentRate
        hour == RAdd(LaunchHour, R(offset))
        \* lines 1575-1621: the schedule is integrated
        Integrate(apogeeLocation, rocketAltitude, built) ==
            IF built.threw
            THEN Ended("TypeError", NoSimulation, built.descentList, built.queries,
                       <<>>, rocketAltitude)
            ELSE IF Len(built.descentList) < 2
            THEN Continue(built.descentList, built.queries, rocketAltitude)
            ELSE IF LaunchSimulationDataThrows(launchSiteElevation, hour)
            THEN Ended("TypeError", NoSimulation, built.descentList, built.queries,
                       <<>>, rocketAltitude)
            ELSE Landed(IntegrateLoop(built.descentList,
                            [x |-> 1, rocketLocation |-> apogeeLocation,
                             simulation |->
                                 AddLaunchPathPoint(
                                     AddLaunchPathPoint(
                                         LaunchSimulationData(launchSiteElevation, hour),
                                         R(0), LaunchPad),
                                     rocketAltitude, apogeeLocation),
                             drifts |-> <<>>]),
                        built, rocketAltitude)
        \* lines 1514-1573: the band of the apogee is found and the schedule built
        Descend(apogeeLocation, rocketAltitude) ==
            LET found == FindWindIndex(windData, rocketAltitude, 1)
            IN  IF NoBandFound(windData, found) THEN Continue(<<>>, <<>>, rocketAltitude)
                ELSE Integrate(apogeeLocation, rocketAltitude,
                         BuildDescentList(windData, rocketAltitude, found - 1, startRate,
                                          l.mainDeployAltitude, l.mainDescentRate))
        \* lines 1504-1507: an adjusted altitude of 0 or less is replaced
        FromApogee(adjusted) ==
            Descend(adjusted.apogeeLocation,
                    IF RLe(adjusted.apogeeAltitude, R(0))
                    THEN l.rocketApogee ELSE adjusted.apogeeAltitude)
    IN  IF fetched.isNull THEN Continue(<<>>, <<>>, NaN)
        ELSE FromApogee(
                 IF l.applyWeathercockAdjustment
                 THEN MainWeathercockAdjustment(GetCopy(LaunchPad),
                          GroundMean([i \in DOMAIN windData |-> windData[i].windDirection],
                                     altitudeCount),
                          RRound(RMul(GroundMean([i \in DOMAIN windData |->
                                                     windData[i].windSpeed],
                                                 altitudeCount),
                                      KnotsToMph)),
                          l.weathercockData)
                 ELSE [apogeeAltitude |-> l.rocketApogee,
                       apogeeLocation |-> GetCopy(LaunchPad)])

\* The forms drawn: the apogee, the elevation field left empty, the
\* weathercock table of two entered speeds, the recovery inputs and the
\* last hour of the window (the first is hour 0).
Forms ==
    [endHourOffset : 0..(MaxHours - 1),
     rocketApogee : {NaN, R(1000)},
     launchSiteElevation : {NaN},
     applyWeathercocking : BOOLEAN,
     weathercockData :
         {LoadWeathercockData(1000,
              [x \in Range(TableSpeeds) |-> IF x <= 10 THEN "further" ELSE "none"])},
     mainDescentRate : {R(0), R(20)},
     dualDeploy : BOOLEAN,
     mainEventAltitude : {R(0), R(500), R(1000), R(1500)},
     drogueDecentRate : {R(0), R(75)}]

\* A response listing the altitudes alts, with the same wind at each.
UniformJSON(model, alts, knots, degrees) ==
    [model |-> model, alts |-> alts,
     speed |-> [x \in Altitudes |-> knots],
     direction |-> [x \in Altitudes |-> degrees],
     groundSpd |-> knots, groundElev |-> R(0)]

\* What the request of an hour can come back with: a failure, a response
\* with a wind that is not a number, one without altitudes, one with a
\* single altitude, and two forecasts that reach above the apogee.
Responses ==
    {[ok |-> FALSE, json |-> GroundWindJSON(0)],
     [ok |-> TRUE, json |-> UniformJSON("RAP", <<0, 500, 1000>>, NaN, R(90))],
     [ok |-> TRUE, json |-> UniformJSON("", <<>>, R(0), R(0))],
     [ok |-> TRUE, json |-> UniformJSON("RAP", <<0>>, R(4), R(90))],
     [ok |-> TRUE, json |-> UniformJSON("RAP", <<0, 500, 1000>>, R(4), R(90))],
     [ok |-> TRUE, json |-> UniformJSON("RAP", <<1000, 0, 500>>, R(0), R(350))]}

InitBatch ==
    /\ pc = "idle"
    /\ rocketDetails = NewRocket("RocketBase", NaN, <<>>)
    /\ windForecast = WindForecastData(GroundWindJSON(0))
    /\ result = NoResult
    /\ apogeePoint = NoPoint
    /\ BatchIdle
    /\ OthersIdle

\* The click on the calculate button: calculateLandingPlots runs up to its
\* first await, or returns the empty list when an input is rejected.
ClickCalculateDrift ==
    /\ pc = "idle"
    /\ \E form \in Forms :
           IF ReturnsBeforeLoop(form)
           THEN pc' = "returned" /\ UNCHANGED batchVars
           ELSE /\ pc' = "awaiting"
                /\ locals' = ReadInputs(form)
                /\ currentOffset' = 0
                /\ simulationList' = <<>>
                /\ hourLog' = <<>>
    /\ UNCHANGED <<rocketDetails, windForecast, result, apogeePoint>>
    /\ UNCHANGED otherVars

\* A loop that asks for the forecast of the next hour while the one of the
\* current hour is still awaited.
FetchWithoutAwaiting ==
    /\ pc = "awaiting"
    /\ currentOffset < locals.endHourOffset
    /\ currentOffset' = currentOffset + 1
    /\ UNCHANGED <<pc, rocketDetails, windForecast, result, apogeePoint, locals,
                   simulationList, hourLog>>
    /\ UNCHANGED otherVars

\* The forecast of the hour arrives: the turn of the loop for the hour
\* runs, and the function goes on to await the next hour, returns the
\* list, or is left by an exception.
ForecastArrives ==
    /\ pc = "awaiting"
    /\ \E response \in Responses :
       \E fetched \in {GetWindPredictionData(response)} :
       \E hour \in {SimulateHour(locals, fetched, currentOffset)} :
               /\ result' = hour
               /\ windForecast' = fetched.forecast
               /\ hourLog' = Append(hourLog, hour.outcome)
               /\ IF hour.outcome = "TypeError"
                  THEN /\ pc' = "rejected"
                       /\ UNCHANGED <<currentOffset, simulationList>>
                  ELSE /\ simulationList' =
                              IF hour.outcome = "result"
                              THEN Append(simulationList, hour.simulation)
                              ELSE simulationList
                       /\ currentOffset' = currentOffset + 1
                       /\ pc' = IF currentOffset + 1 <= locals.endHourOffset
                                THEN "awaiting" ELSE "returned"
    /\ UNCHANGED <<rocketDetails, apogeePoint, locals>>
    /\ UNCHANGED otherVars

NextBatch == ClickCalculateDrift \/ ForecastArrives

SpecBatch == InitBatch /\ [][NextBatch]_vars

-----------------------------------------------------------------------------
(* Properties of calculateLandingPlots and of weathercockAdjustment *)

\* C4: whatever the requests of the hours come back with, no exception
\* leaves calculateLandingPlots, and when it has returned every hour of the
\* window has been gone through.
C4_InvalidForecastOnlySkipsHour ==
    /\ pc # "rejected"
    /\ (pc = "returned" /\ locals # NoLocals) => Len(hourLog) = locals.endHourOffset + 1

\* C8: whenever the descent schedule of an hour is built with dual
\* deployment active, the main deployment altitude is greater than 0 and
\* less than the altitude the descent starts from.
C8_DualDeploymentBelowApogee ==
    (pc \in {"awaiting", "returned"}
        /\ locals.usingDualDeployoment /\ result.outcome = "result") =>
        /\ RGt(locals.mainDeployAltitude, R(0))
        /\ RLt(locals.mainDeployAltitude, result.apogee)

\* The entry of the table with the highest wind speed.
HighestEntry ==
    CHOOSE e \in Range(rocketDetails.weathercockData) :
        \A f \in Range(rocketDetails.weathercockData) : RLe(f.windSpeed, e.windSpeed)

\* The ground wind (MPH) is faster than every entry of a non-empty table.
AboveTable ==
    /\ rocketDetails.weathercockData # <<>>
    /\ RGt(RMul(KnotsToMph, windForecast.groundWindSpeed), HighestEntry.windSpeed)

\* C10: for a non-empty table and a ground wind faster than its highest
\* entry, weathercockAdjustment returns the apogee of the highest entry at
\* the launch location displaced by the upwind distance of that entry.
C10_ClampsToHighestEntry ==
    (pc = "done" /\ AboveTable) =>
        /\ apogeePoint.altitude = HighestEntry.apogee
        /\ IF REq(HighestEntry.upwindDistance, R(0))
           THEN apogeePoint.location = LaunchPad
           ELSE /\ Len(apogeePoint.location.moves) = 1
                /\ apogeePoint.location.moves[1].meters
                       = FeetToMeters(HighestEntry.upwindDistance)

C10_Witness ==
    /\ pc = "done" /\ AboveTable
    /\ Len(rocketDetails.weathercockData) = 3
    /\ HighestEntry.apogee # R(1000)
    /\ apogeePoint.altitude = HighestEntry.apogee
    /\ Len(apogeePoint.location.moves) = 1
    /\ apogeePoint.location.moves[1].meters = FeetToMeters(HighestEntry.upwindDistance)

-----------------------------------------------------------------------------
(* Properties of the weathercock table at no wind *)

\* The table of the rocket was filled by loadWeathercockData and the
\* forecast tells a ground wind of 0.
CalmWithTable ==
    /\ Len(rocketDetails.weathercockData) > 0
    /\ REq(RMul(KnotsToMph, windForecast.groundWindSpeed), R(0))

\* C11: with a table built by loadWeathercockData, a ground wind speed of
\* 0 MPH yields the entered apogee and an apogee location equal to the
\* launch location.
C11_CalmGivesBaseline ==
    (pc = "done" /\ CalmWithTable) =>
        /\ apogeePoint.altitude = rocketDetails.apogee
        /\ apogeePoint.location = LaunchPad

C11_Witness ==
    /\ pc = "done" /\ CalmWithTable
    /\ Len(rocketDetails.weathercockData) = 3
    /\ At(rocketDetails.weathercockData, 1).upwindDistance # R(0)
    /\ apogeePoint = LaunchPathPoint(R(1000), LaunchPad)

-----------------------------------------------------------------------------
(* linearInterpolate and the mean of two wind directions, called on their  *)
(* own with arguments drawn from small sets.                               *)

\* The ends of the source ranges (wind speeds, MPH) and of the target
\* ranges (feet).
SourceEnds == {0, 5, 10, 20}

TargetEnds == {0, 100, 950, 1000}

\* Where in the source range the value lies: at an end, in the middle or
\* a quarter of the way up.
SourcePositions == {"lower", "upper", "middle", "quarter"}

SourceValue(position, sourceLower, sourceUpper) ==
    IF position = "lower" THEN R(sourceLower)
    ELSE IF position = "upper" THEN R(sourceUpper)
    ELSE IF position = "middle" THEN Frac(sourceLower + sourceUpper, 2)
    ELSE Frac(3 * sourceLower + sourceUpper, 4)

InterpolateArgs ==
    {[call |-> "linearInterpolate",
      sourceValue |-> SourceValue(position, sl, su),
      sourceLower |-> R(sl), sourceUpper |-> R(su),
      targetLower |-> R(tl), targetUpper |-> R(tu)] :
        position \in SourcePositions, sl \in SourceEnds, su \in SourceEnds,
        tl \in TargetEnds, tu \in TargetEnds}

\* Wind directions (degrees) in [0, 360).
Directions == {0, 10, 90, 110, 180, 200, 270, 350, 355}

\* The two uses of the mean: the segment mean of driftSimulation and
\* getAverageWindDirection at the ceiling of a band.
DirectionArgs ==
    {[call |-> c, d0 |-> R(a), d1 |-> R(b)] :
        c \in {"segmentDirection", "getAverageWindDirection"},
        a \in Directions, b \in Directions}

\* The shares of a band's height getAverageWindDirection is asked at.
BandFractions == {R(0), Frac(1, 4), Frac(1, 2), Frac(3, 4), R(1)}

\* getAverageWindDirection for an altitude inside a band.
BandDirectionArgs ==
    {[call |-> "bandDirection", d0 |-> R(a), d1 |-> R(b), fraction |-> f] :
        a \in Directions, b \in Directions, f \in BandFractions}

InitCalls ==
    /\ pc = "new"
    /\ rocketDetails = NewRocket("RocketBase", NaN, <<>>)
    /\ windForecast = WindForecastData(GroundWindJSON(0))
    /\ result = NoResult
    /\ apogeePoint = NoPoint
    /\ BatchIdle
    /\ args \in InterpolateArgs \cup DirectionArgs \cup BandDirectionArgs
    /\ value = NaN
    /\ PageIdle
    /\ RestIdle

\* linearInterpolate(sourceValue, sourceLower, sourceUpper, targetLower,
\* targetUpper)
CallLinearInterpolate ==
    /\ pc = "new" /\ args.call = "linearInterpolate"
    /\ value' = LinearInterpolate(args.sourceValue, args.sourceLower, args.sourceUpper,
                                  args.targetLower, args.targetUpper)
    /\ pc' = "done"
    /\ UNCHANGED <<rocketDetails, windForecast, result, apogeePoint, batchVars, args,
                   runs, page, restVars>>

\* The wind direction of a segment between a step with direction d0 and
\* the step before it with direction d1 (drift_simulation.js:126-135).
CallSegmentDirection ==
    /\ pc = "new" /\ args.call = "segmentDirection"
    /\ value' = StraddleMean(RAdd(args.d0, args.d1), RSub(args.d1, args.d0))
    /\ pc' = "done"
    /\ UNCHANGED <<rocketDetails, windForecast, result, apogeePoint, batchVars, args,
                   runs, page, restVars>>

\* getAverageWindDirection(1, windData, 0) for a band whose floor blows
\* from d0 and whose ceiling blows from d1.
CallGetAverageWindDirection ==
    /\ pc = "new" /\ args.call = "getAverageWindDirection"
    /\ value' = GetAverageWindDirection(R(1),
                    <<WindAtAltitude(R(0), R(0), args.d0),
                      WindAtAltitude(R(1000), R(0), args.d1)>>, 0)
    /\ pc' = "done"
    /\ UNCHANGED <<rocketDetails, windForecast, result, apogeePoint, batchVars, args,
                   runs, page, restVars>>

\* getAverageWindDirection(bandPercentage, windData, 0) for the share
\* bandPercentage of a band whose floor blows from d0 and whose ceiling
\* blows from d1 (drift_simulation.js:58-60, 84-87).
CallBandDirection ==
    /\ pc = "new" /\ args.call = "bandDirection"
    /\ value' = GetAverageWindDirection(args.fraction,
                    <<WindAtAltitude(R(0), R(0), args.d0),
                      WindAtAltitude(R(1000), R(0), args.d1)>>, 0)
    /\ pc' = "done"
    /\ UNCHANGED <<rocketDetails, windForecast, result, apogeePoint, batchVars, args,
                   runs, page, restVars>>

NextCalls ==
    \/ CallLinearInterpolate
    \/ CallSegmentDirection
    \/ CallGetAverageWindDirection
    \/ CallBandDirection

SpecCalls == InitCalls /\ [][NextCalls]_vars

\* linearInterpolate has returned.
Interpolated == pc = "done" /\ args.call = "linearInterpolate"

\* What the interpolation is to return at the ends and in the middle of
\* the source range.
HitsTargets ==
    /\ REq(args.sourceValue, args.sourceLower) => value = args.targetLower
    /\ REq(args.sourceValue, args.sourceUpper) => value = args.targetUpper
    /\ REq(args.sourceValue, RDiv(RAdd(args.sourceLower, args.sourceUpper), R(2)))
           => value = RDiv(RAdd(args.targetLower, args.targetUpper), R(2))

InterpolatesProperRange ==
    Interpolated =>
        IF REq(args.sourceLower, args.sourceUpper)
        THEN value = args.targetLower
        ELSE HitsTargets

\* The mean of two directions has been computed.
Averaged == pc = "done" /\ args.call \in {"segmentDirection", "getAverageWindDirection"}

\* The length (degrees) of the shorter arc between two directions of [0, 360).
ArcLength(x, y) ==
    IF RGt(RAbs(RSub(x, y)), R(180))
    THEN RSub(R(360), RAbs(RSub(x, y)))
    ELSE RAbs(RSub(x, y))

\* C13: for any two directions d0 and d1 of [0, 360) the straddle-aware
\* mean lies in [0, 360) and is the midpoint of the shorter arc between d0
\* and d1: as far from d0 as from d1, half the length of that arc.
C13_MeanOfShorterArc ==
    Averaged =>
        /\ RGe(value, R(0)) /\ RLt(value, R(360))
        /\ ArcLength(value, args.d0) = RDiv(ArcLength(args.d0, args.d1), R(2))
        /\ ArcLength(value, args.d1) = RDiv(ArcLength(args.d0, args.d1), R(2))

C13_Witness ==
    /\ Averaged
    /\ args.call = "segmentDirection"
    /\ args.d0 = R(350) /\ args.d1 = R(10)
    /\ value = R(0)

-----------------------------------------------------------------------------
(* Properties of the list calculateLandingPlots collects *)

RECURSIVE SimulatedHours(_, _)
\* The hours of the window a simulation was made for, in the order of the
\* window: hour k of the window is LaunchHour + (k - 1).
SimulatedHours(log, k) ==
    IF k > Len(log) THEN <<>>
    ELSE IF log[k] = "result"
    THEN <<RAdd(LaunchHour, R(k - 1))>> \o SimulatedHours(log, k + 1)
    ELSE SimulatedHours(log, k + 1)

\* The hours the collected results are for, in the order of the list.
ListedHours == [i \in DOMAIN simulationList |-> simulationList[i].time]

\* C14: the list of a batch run holds exactly one result for each hour of
\* the window that was simulated, none for a skipped hour, and the results
\* are in strictly increasing hour order.
C14_OneResultPerSimulatedHour ==
    /\ ListedHours = SimulatedHours(hourLog, 1)
    /\ \A i, j \in DOMAIN simulationList :
           i < j => RLt(simulationList[i].time, simulationList[j].time)

C14_Witness ==
    /\ pc = "returned"
    /\ Len(hourLog) = 3
    /\ hourLog[1] = "result" /\ hourLog[2] = "continue" /\ hourLog[3] = "result"
    /\ Len(simulationList) = 2

-----------------------------------------------------------------------------
(* main.js: the click listener of btnCalculateDrift around                 *)
(* calculateLandingPlots.  A run is one call of the listener:              *)
(* [pc, locals, currentOffset, simulationList, hourLog], with pc           *)
(* "awaiting" (a forecast is awaited), "finished" (the listener ran to its *)
(* end) or "rejected" (an exception left calculateLandingPlots and the     *)
(* listener with it).                                                      *)

\* The clicks on the calculate button that are followed.
MaxClicks == 2

\* The listener up to its await (part_005:1097-1125): the save buttons are
\* disabled and hidden, the results hidden, the status line shown.
HandlerBegins(p) ==
    [p EXCEPT !.saveButtons = [disabled |-> TRUE, hidden |-> TRUE],
              !.mapHidden = TRUE,
              !.resultHidden = TRUE,
              !.status = [text |-> "Calculating drift...", hidden |-> FALSE]]

\* The listener after its await (part_005:1128-1157), for the run id whose
\* calculateLandingPlots returned list.
HandlerResumes(p, id, list) ==
    IF Len(list) > 0
    THEN [p EXCEPT !.launchSimulationList = [run |-> id, list |-> list],
                   !.status.hidden = TRUE,
                   !.saveButtons = [disabled |-> FALSE, hidden |-> FALSE],
                   !.mapHidden = FALSE,
                   !.resultHidden = FALSE,
                   !.displayed = [run |-> id, list |-> list]]
    ELSE [p EXCEPT !.launchSimulationList = [run |-> id, list |-> list],
                   !.status.text = "An error occurred."]

\* calculateLandingPlots up to its first await, or to its return of the
\* empty list when an input is rejected (main.js:1351-1438).
StartRun(form) ==
    IF ReturnsBeforeLoop(form)
    THEN [pc |-> "returned", locals |-> NoLocals, currentOffset |-> 0,
          simulationList |-> <<>>, hourLog |-> <<>>]
    ELSE [pc |-> "awaiting", locals |-> ReadInputs(form), currentOffset |-> 0,
          simulationList |-> <<>>, hourLog |-> <<>>]

\* The end of a turn of the loop of calculateLandingPlots that made `hour`
\* (main.js:1435, 1621-1623).
AfterHour(run, hour) ==
    IF hour.outcome = "TypeError"
    THEN [run EXCEPT !.pc = "rejected", !.hourLog = Append(@, hour.outcome)]
    ELSE [run EXCEPT !.hourLog = Append(@, hour.outcome),
                     !.simulationList = IF hour.outcome = "result"
                                        THEN Append(@, hour.simulation) ELSE @,
                     !.currentOffset = @ + 1,
                     !.pc = IF run.currentOffset + 1 <= run.locals.endHourOffset
                            THEN "awaiting" ELSE "returned"]

\* The turn of the loop for the forecast that arrived.
TurnOfLoop(run, response) ==
    AfterHour(run, SimulateHour(run.locals, GetWindPredictionData(response),
                                run.currentOffset))

\* A run whose calculateLandingPlots returned is resumed at once: the
\* listener runs to its end before any other event is handled.
Settled(run) == IF run.pc = "returned" THEN [run EXCEPT !.pc = "finished"] ELSE run

PageAfter(p, id, run) ==
    IF run.pc = "returned" THEN HandlerResumes(p, id, run.simulationList) ELSE p

\* The forms of the page spec: a window of one or two hours, an apogee
\* that is entered or not, single deployment.
PageForms ==
    {f \in Forms : /\ f.endHourOffset <= 1
                   /\ ~f.applyWeathercocking /\ ~f.dualDeploy
                   /\ f.mainDescentRate = R(20)
                   /\ f.mainEventAltitude = R(0) /\ f.drogueDecentRate = R(0)}

\* What a request comes back with: a failure, a response without
\* altitudes, a forecast that reaches above the apogee.
PageResponses ==
    {[ok |-> FALSE, json |-> GroundWindJSON(0)],
     [ok |-> TRUE, json |-> UniformJSON("", <<>>, R(0), R(0))],
     [ok |-> TRUE, json |-> UniformJSON("RAP", <<0, 500, 1000>>, R(4), R(90))]}

InitPage ==
    /\ pc = "page"
    /\ rocketDetails = NewRocket("RocketBase", NaN, <<>>)
    /\ windForecast = WindForecastData(GroundWindJSON(0))
    /\ result = NoResult
    /\ apogeePoint = NoPoint
    /\ BatchIdle
    /\ OthersIdle

\* A click on the calculate button: the listener runs up to its await, and
\* to its end when calculateLandingPlots returns without awaiting.
PageClickCalculate ==
    /\ Len(runs) < MaxClicks
    /\ \E form \in PageForms :
       \E run \in {StartRun(form)} :
           /\ runs' = Append(runs, Settled(run))
           /\ page' = PageAfter(HandlerBegins(page), Len(runs) + 1, run)
    /\ UNCHANGED <<pc, rocketDetails, windForecast, result, apogeePoint, batchVars,
                   args, value, restVars>>

\* The forecast a run awaits arrives: the turn of the loop runs, and the
\* listener after it when that was the last hour.
PageForecastArrives ==
    /\ \E id \in DOMAIN runs :
           /\ runs[id].pc = "awaiting"
           /\ \E response \in PageResponses :
              \E run \in {TurnOfLoop(runs[id], response)} :
                  /\ runs' = [runs EXCEPT ![id] = Settled(run)]
                  /\ page' = PageAfter(page, id, run)
    /\ UNCHANGED <<pc, rocketDetails, windForecast, result, apogeePoint, batchVars,
                   args, value, restVars>>

NextPage == PageClickCalculate \/ PageForecastArrives

SpecPage == InitPage /\ [][NextPage]_vars

\* Run id has ended: its listener ran to its end or was left by an exception.
Over(id) == runs[id].pc \in {"finished", "rejected"}

\* Run id simulated an hour.
SimulatedAnHour(id) == \E k \in DOMAIN runs[id].hourLog : runs[id].hourLog[k] = "result"

\* The page tells the user of a failure.
FailureShown == page.status = [text |-> "An error occurred.", hidden |-> FALSE]

\* The results of run id are on the page and can be saved.
ShownAndSavable(id) ==
    /\ ~page.mapHidden /\ ~page.resultHidden
    /\ page.displayed.run = id
    /\ page.displayed.list = runs[id].simulationList
    /\ ~page.saveButtons.disabled /\ ~page.saveButtons.hidden
    /\ page.launchSimulationList.run = id

\* C15: after a calculate run that could not simulate any hour, the page
\* tells the user of a failure and the save buttons stay disabled; a run
\* that simulated an hour is not reported as a failure, and its results
\* are shown and can be saved.  Stated for a run no other click follows.
C15_FailureOnlyForEmptyRuns ==
    (Len(runs) = 1 /\ Over(1)) =>
        IF SimulatedAnHour(1)
        THEN ~FailureShown /\ ShownAndSavable(1)
        ELSE FailureShown /\ page.saveButtons.disabled

\* The same for the runs whose calculateLandingPlots returned its list.
FailureOnlyForEmptyLists ==
    (Len(runs) = 1 /\ runs[1].pc = "finished") =>
        IF SimulatedAnHour(1)
        THEN ~FailureShown /\ ShownAndSavable(1)
        ELSE FailureShown /\ page.saveButtons.disabled


\* The newest calculation: the one the last click began.
Newest == Len(runs)

\* Results are on the page: the map or the result table is not hidden.
ResultsDisplayed == ~page.mapHidden \/ ~page.resultHidden

\* Results can be saved or exported: a save button is enabled and the
\* listeners of the save buttons find a list that is not empty
\* (part_005:1163, 1193, 1223).
ResultsSavable == ~page.saveButtons.disabled /\ Len(page.launchSimulationList.list) > 0

\* C17: once a new calculation began, results of an earlier calculation
\* are neither displayed nor savable: whatever is displayed or can be
\* saved is the result of the newest calculation, for any interleaving of
\* clicks and arriving forecasts.
C17_OnlyNewestResultsShown ==
    /\ ResultsDisplayed => page.displayed.run = Newest
    /\ ResultsSavable => page.launchSimulationList.run = Newest

-----------------------------------------------------------------------------
(* driftSimulation called hour after hour for one launch site, with the    *)
(* GeoLocation objects kept apart from the references to them: heap.cells  *)
(* holds the objects, and a location is the index of its object.           *)
(* launchDetails.location is object 1.                                     *)

LaunchLocationRef == 1

\* A LaunchPathPoint that keeps the reference it is given.
AliasedLaunchPathPoint(cells, alt, loc) ==
    [cells |-> cells, point |-> [altitude |-> alt, location |-> loc]]

\* new LaunchPathPoint(alt, loc) (launch.js:153-159): the point refers to a
\* new GeoLocation made from the coordinates of loc.
NewLaunchPathPoint(cells, alt, loc) ==
    [cells |-> Append(cells, GetCopy(cells[loc])),
     point |-> [altitude |-> alt, location |-> Len(cells) + 1]]

\* A new LaunchPathPoint is pushed on a list; m is [cells, points].
PushPoint(m, made) == [cells |-> made.cells, points |-> Append(m.points, made.point)]

\* weathercockAdjustment (part_001:200-252) on the objects: unless the
\* table is empty, apogeeLocation is a copy of the launch location that is
\* moved in place to where `adjusted` lies, and the point returned is made
\* from it.
HeapWeathercockAdjustment(m, r, adjusted) ==
    IF Len(r.weathercockData) = 0
    THEN PushPoint(m, NewLaunchPathPoint(m.cells, adjusted.altitude, LaunchLocationRef))
    ELSE PushPoint(m, NewLaunchPathPoint(Append(m.cells, adjusted.location),
                                         adjusted.altitude, Len(m.cells) + 1))

\* getLaunchPath of the three classes (part_001:108-110, 138-147, 183-193)
\* on the objects.
HeapGetLaunchPath(cells, r, windData) ==
    LET Pad(m, alt) == PushPoint(m, NewLaunchPathPoint(m.cells, alt, LaunchLocationRef))
    IN  IF r.class = "RocketBase"
        THEN Pad([cells |-> cells, points |-> <<>>], LaunchDetails.altitude)
        ELSE IF r.class = "RocketApogee"
        THEN Pad(Pad([cells |-> cells, points |-> <<>>], R(0)), r.apogee)
        ELSE HeapWeathercockAdjustment(Pad([cells |-> cells, points |-> <<>>], R(0)), r,
                 WeathercockAdjustment(r, LaunchDetails.location, windData))

RECURSIVE HeapAddLaunchPath(_, _)
\* launchPath.forEach(... addLaunchPathPoint ...) (drift_simulation.js:118,
\* launch.js:242-246) on the objects.
HeapAddLaunchPath(m, launchPath) ==
    IF launchPath = <<>> THEN m
    ELSE HeapAddLaunchPath(
             PushPoint(m, NewLaunchPathPoint(m.cells, Head(launchPath).altitude,
                                             Head(launchPath).location)),
             Tail(launchPath))

\* drift_simulation.js:17-118 for a call that reaches the loop over the
\* descent steps: the launch path is made, rocketLocation is a copy of the
\* location of its last point, and the launch path is added to the result.
HeapStarted(h, launched, descentList) ==
    LET Added(m) ==
            [h EXCEPT !.cells = m.cells, !.phase = "descending",
                      !.launchPath = launched.points,
                      !.rocketLocation = Len(launched.cells) + 1,
                      !.descentList = descentList, !.x = 1, !.path = m.points]
    IN  Added(HeapAddLaunchPath(
                  [cells |-> Append(launched.cells,
                       GetCopy(launched.cells[launched.points[Len(launched.points)].location])),
                   points |-> <<>>],
                  launched.points))

\* A call of driftSimulation that returns null or throws keeps nothing.
HeapNoResult(h) == [h EXCEPT !.hours = @ + 1]

\* One turn of the loop over the descent steps (drift_simulation.js:121-144):
\* driftWithWind moves the object rocketLocation refers to, and the result
\* is given a point made from it.
HeapDescentTurn(h, drift) ==
    LET Moved(cells) ==
            LET made == NewLaunchPathPoint(cells, At(h.descentList, h.x).altitude,
                                           h.rocketLocation)
            IN  [h EXCEPT !.cells = made.cells, !.path = Append(@, made.point),
                          !.x = @ + 1]
    IN  Moved([h.cells EXCEPT ![h.rocketLocation] = drift.location])

\* return launchSimulation (drift_simulation.js:146)
HeapReturned(h) ==
    [h EXCEPT !.phase = "idle", !.hours = @ + 1, !.results = Append(@, h.path),
              !.path = <<>>, !.launchPath = <<>>]

\* The rockets and forecasts of the hours.
HeapRockets ==
    {NewRocket("RocketApogee", R(1000), <<>>),
     NewRocket("RocketWeathercocking", R(1000), WeathercockTable(1000, 2))}

HeapForecasts ==
    {WindForecastData(UniformJSON("RAP", <<0, 500, 1000>>, R(k), R(d))) :
        k \in {0, 10}, d \in {90, 180}}
    \cup {WindForecastData(UniformJSON("RAP", <<0, 500>>, R(10), R(90)))}

InitHeap ==
    /\ pc = "heap"
    /\ rocketDetails \in HeapRockets
    /\ windForecast = WindForecastData(GroundWindJSON(0))
    /\ result = NoResult
    /\ apogeePoint = NoPoint
    /\ BatchIdle
    /\ args = <<>> /\ value = NaN /\ PageIdle
    /\ heap = [NoHeap EXCEPT !.cells = <<LaunchDetails.location>>]
    /\ sites = NoSites
    /\ times = NoTimes

\* driftSimulation is called for the next hour and runs up to the loop over
\* the descent steps, or returns without a result.
HeapCallDriftSimulation ==
    /\ heap.phase = "idle"
    /\ heap.hours < MaxHours
    /\ \E forecast \in HeapForecasts :
       \E ended \in {DriftSimulation(LaunchDetails, LaunchHour, rocketDetails, forecast)} :
           /\ windForecast' = forecast
           /\ heap' = IF ended.outcome = "result"
                      THEN HeapStarted(heap,
                               HeapGetLaunchPath(heap.cells, rocketDetails, forecast),
                               ended.descentList)
                      ELSE HeapNoResult(heap)
    /\ UNCHANGED <<pc, rocketDetails, result, apogeePoint, batchVars, args, value,
                   runs, page, sites, times>>

\* A turn of the loop over the descent steps.
HeapDescentStep ==
    /\ heap.phase = "descending"
    /\ heap.x < Len(heap.descentList)
    /\ heap' = HeapDescentTurn(heap,
                   SegmentDrift(heap.descentList,
                       [x |-> heap.x,
                        rocketLocation |-> heap.cells[heap.rocketLocation]]))
    /\ UNCHANGED <<pc, rocketDetails, windForecast, result, apogeePoint, batchVars,
                   args, value, runs, page, sites, times>>

\* The loop is over and driftSimulation returns its result.
HeapReturn ==
    /\ heap.phase = "descending"
    /\ ~(heap.x < Len(heap.descentList))
    /\ heap' = HeapReturned(heap)
    /\ UNCHANGED <<pc, rocketDetails, windForecast, result, apogeePoint, batchVars,
                   args, value, runs, page, sites, times>>

NextHeap == HeapCallDriftSimulation \/ HeapDescentStep \/ HeapReturn

SpecHeap == InitHeap /\ [][NextHeap]_vars

\* The points the results hold: those of the hours that returned and those
\* added so far in the hour that runs.
RECURSIVE Flatten(_)
Flatten(lists) == IF lists = <<>> THEN <<>> ELSE Head(lists) \o Flatten(Tail(lists))

AppendedPoints == Flatten(heap.results) \o heap.path

\* Nothing the simulations hold or were given refers to the same object as
\* anything else: the launch location, the running rocket location, the
\* launch path points and the points of the results are pairwise distinct
\* objects.
HeldLocations ==
    <<LaunchLocationRef>>
    \o (IF heap.phase = "descending" THEN <<heap.rocketLocation>> ELSE <<>>)
    \o [i \in DOMAIN heap.launchPath |-> heap.launchPath[i].location]
    \o [i \in DOMAIN AppendedPoints |-> AppendedPoints[i].location]

NothingShared ==
    \A i, j \in DOMAIN HeldLocations : i # j => HeldLocations[i] # HeldLocations[j]

\* A step of a simulation leaves the launch location, the launch path
\* points and every point appended before it where they were, and does not
\* write the forecast.
KeepsWhatItWasGiven ==
    /\ heap'.cells[LaunchLocationRef] = heap.cells[LaunchLocationRef]
    /\ \A i \in DOMAIN heap.launchPath :
           heap'.cells[heap.launchPath[i].location] = heap.cells[heap.launchPath[i].location]
    /\ \A i \in DOMAIN AppendedPoints :
           /\ heap'.cells[AppendedPoints[i].location] = heap.cells[AppendedPoints[i].location]
           /\ i \in DOMAIN AppendedPoints' /\ AppendedPoints'[i] = AppendedPoints[i]
    /\ heap.phase = "descending" => windForecast' = windForecast

\* C16: no mutable state is shared between simulations: the objects held
\* are pairwise distinct, a simulation never modifies the launch location,
\* the launch path points or the forecast it was given, and every point
\* already appended to a result keeps its coordinates when the running
\* rocket location is moved afterwards, in the same or a later hour.
C16_NoSharedLocations == [](NothingShared) /\ [][KeepsWhatItWasGiven]_vars

\* Two hours returned results, a third is descending, and its rocket
\* location has been moved away from the point appended before the move.
C16_Witness ==
    /\ Len(heap.results) = 2
    /\ heap.phase = "descending" /\ heap.x = 3
    /\ heap.cells[heap.rocketLocation] # heap.cells[heap.path[Len(heap.path) - 1].location]
    /\ heap.cells[heap.rocketLocation] # heap.cells[LaunchLocationRef]
    /\ heap.results[1] # heap.results[2]

-----------------------------------------------------------------------------
(* main.js: the launch sites.  sites.db is the object store                *)
(* DriftCast_Sites, sites.options and sites.selectedIndex the selector,    *)
(* sites.fields the texts of the launch-site inputs, sites.requests the    *)
(* database requests not yet carried out, oldest first, and sites.lookups  *)
(* the elevation lookups not yet answered.  A text is a number, Blank      *)
(* ('') or NotANumber ('NaN'); a number read from a text may be            *)
(* NotANumber.                                                             *)

\* parseFloat / parseInt of the text of a field
ParseFloat(text) == IF text = Blank THEN NotANumber ELSE text

IsNumber(x) == x # NotANumber

\* Math.abs(x) > limit, x < -limit || x > limit: false for NaN
Outside(x, limit) == IsNumber(x) /\ (x < -limit \/ x > limit)

\* Nothing is stored under a name that an undefined result stands for.
Undefined == [name |-> ""]

\* objectStore.get(name)
DbGet(db, name) == IF \E r \in db : r.name = name THEN CHOOSE r \in db : r.name = name ELSE Undefined

\* objectStore.delete(name)
DbDelete(db, name) == {r \in db : r.name # name}

\* objectStore.put(record)
DbPut(db, record) == DbDelete(db, record.name) \cup {record}

\* objectStore.add(record): fails when the key is stored already
DbAdd(db, record) == IF \E r \in db : r.name = record.name THEN db ELSE db \cup {record}

\* select.value: the value of the selected option, '' without one
SelectorValue(s) ==
    IF s.selectedIndex >= 0 /\ s.selectedIndex < Len(s.options)
    THEN At(s.options, s.selectedIndex) ELSE ""

\* select.remove(index)
RemoveOption(options, index) == [i \in 1..(Len(options) - 1) |-> IF i <= index THEN options[i] ELSE options[i + 1]]

\* -1 != launchSiteNames.indexOf(name)
InList(names, name) == \E i \in DOMAIN names : names[i] = name

\* launchSiteNames.indexOf / splice (part_005:359-362)
RemoveName(names, name) == SelectSeq(names, LAMBDA n : n # name)

\* getLaunchSiteLocation (part_005:98-114) returns null
NoLaunchSiteLocation(fields) ==
    \/ ~IsNumber(ParseFloat(fields.latitude)) \/ Outside(ParseFloat(fields.latitude), 90)
    \/ ~IsNumber(ParseFloat(fields.longitude)) \/ Outside(ParseFloat(fields.longitude), 180)

\* verifyLaunchSiteData (part_005:228-266)
VerifyLaunchSiteData(s) ==
    /\ s.fields.name # ""
    /\ ~InList(s.launchSiteNames, s.fields.name)
    /\ s.fields.latitude \notin {Blank, NotANumber} /\ ~Outside(s.fields.latitude, 90)
    /\ s.fields.longitude \notin {Blank, NotANumber} /\ ~Outside(s.fields.longitude, 180)

\* A waiver coordinate as the two saves store it (part_005:293-299,
\* 939-948): 360 for one that is missing or out of range.
StoredWaiverCoordinate(text, limit) ==
    IF ~IsNumber(ParseFloat(text)) \/ Outside(ParseFloat(text), limit) THEN 360
    ELSE ParseFloat(text)

\* The record saveLaunchSiteToDb adds (part_005:284-321)
NewSiteRecord(fields) ==
    [name |-> fields.name,
     latitude |-> ParseFloat(fields.latitude),
     longitude |-> ParseFloat(fields.longitude),
     elevation |-> ParseFloat(fields.elevation),
     waiver_latitude |-> StoredWaiverCoordinate(fields.waiverLatitude, 90),
     waiver_longitude |-> StoredWaiverCoordinate(fields.waiverLongitude, 180),
     waiver_altitude |-> ParseFloat(fields.waiverAltitude),
     waiver_radius |-> IF IsNumber(ParseFloat(fields.waiverRadius)) /\ ParseFloat(fields.waiverRadius) < 0
                       THEN 0 ELSE ParseFloat(fields.waiverRadius)]

\* A waiver coordinate as updateLaunchSiteDisplay shows it (part_005:484-498)
ShownWaiverCoordinate(x, limit) == IF ~IsNumber(x) \/ Outside(x, limit) THEN Blank ELSE x

\* updateLaunchSiteDisplay(dbCursor) (part_005:477-505): the waiver radius
\* is not among the fields written.
UpdateLaunchSiteDisplay(fields, dbCursor) ==
    [fields EXCEPT !.name = dbCursor.name,
                   !.latitude = dbCursor.latitude,
                   !.longitude = dbCursor.longitude,
                   !.elevation = dbCursor.elevation,
                   !.waiverLatitude = ShownWaiverCoordinate(dbCursor.waiver_latitude, 90),
                   !.waiverLongitude = ShownWaiverCoordinate(dbCursor.waiver_longitude, 180),
                   !.waiverAltitude = dbCursor.waiver_altitude]

\* updateLaunchSiteUI(newStatus) (part_005:406-471): which inputs and
\* buttons are enabled follows from the status; CREATING empties the fields.
UpdateLaunchSiteUI(s, newStatus) ==
    IF newStatus = "CREATING"
    THEN [s EXCEPT !.status = newStatus,
                   !.fields = [name |-> "", latitude |-> Blank, longitude |-> Blank,
                               elevation |-> -1, waiverLatitude |-> Blank,
                               waiverLongitude |-> Blank, waiverRadius |-> Blank,
                               waiverAltitude |-> Blank]]
    ELSE [s EXCEPT !.status = newStatus]

\* resetLaunchSiteDisplay (part_005:508-516) with clearLaunchSiteSelector
ResetLaunchSiteDisplay(s) ==
    [s EXCEPT !.launchSiteNames = <<>>, !.options = <<>>, !.selectedIndex = -1,
              !.fields = [@ EXCEPT !.name = "", !.latitude = Blank, !.longitude = Blank,
                                   !.waiverLatitude = Blank, !.waiverLongitude = Blank,
                                   !.waiverRadius = Blank]]

\* A request is handed to the database.
Request(s, request) == [s EXCEPT !.requests = Append(@, request)]

\* requestLaunchSiteElevation(latitude, longitude, launchSiteName)
\* (part_005:123-197) up to its fetch.
RequestLaunchSiteElevation(s, latitude, longitude, launchSiteName) ==
    IF launchSiteName = "" \/ ~IsNumber(ParseFloat(latitude)) \/ ~IsNumber(ParseFloat(longitude))
    THEN s
    ELSE [s EXCEPT !.lookups = Append(@, launchSiteName)]


\* The launch sites, coordinates and radius a user types, and the
\* elevation (metres) a lookup answers with.
SiteNames == {"A", "B"}

Typings ==
    {<<"name", n>> : n \in SiteNames}
    \cup {<<"latitude", 20>>, <<"longitude", 30>>, <<"waiverRadius", 7>>}

LookupMeters == 100

\* metersToFeet (geo.js)
MetersToFeet(meters) == (meters * 3281) \div 1000

\* The requests and lookups that may be under way when the user acts, and
\* the actions of the user that are followed.
MaxRequests == 1

MaxSteps == 9

\* The click listener of the Save button while a site is created
\* (part_005:862-899).
SaveNewSite(s) ==
    LET Saved(t) == UpdateLaunchSiteUI(Request(t, [kind |-> "add", record |-> NewSiteRecord(t.fields)]),
                                       "INACTIVE")
        Looked(t) == IF ParseFloat(t.fields.elevation) < 0 /\ ~NoLaunchSiteLocation(t.fields)
                     THEN RequestLaunchSiteElevation(t, t.fields.latitude,
                                                     t.fields.longitude, t.fields.name)
                     ELSE t
    IN  IF ~VerifyLaunchSiteData(s) THEN s
        ELSE Looked(Saved([s EXCEPT !.options = Append(@, s.fields.name),
                                    !.launchSiteNames = Append(@, s.fields.name),
                                    !.selectedIndex = Len(s.options)]))

\* The click listener of the Save button while a site is edited
\* (part_005:900-972), up to its request.
SaveEditedSite(s) ==
    IF NoLaunchSiteLocation(s.fields) THEN s
    ELSE Request(s, [kind |-> "edit", name |-> s.fields.name,
                     latitude |-> ParseFloat(s.fields.latitude),
                     longitude |-> ParseFloat(s.fields.longitude)])

\* launchSiteRequest.onsuccess of the Save button (part_005:932-965): the
\* waiver fields are read now and the record is put back; the status
\* changes once the put is done.
EditedRecord(record, request, fields) ==
    [record EXCEPT !.latitude = request.latitude,
                   !.longitude = request.longitude,
                   !.waiver_latitude = StoredWaiverCoordinate(fields.waiverLatitude, 90),
                   !.waiver_longitude = StoredWaiverCoordinate(fields.waiverLongitude, 180),
                   !.waiver_radius = IF ~IsNumber(ParseFloat(fields.waiverRadius))
                                        \/ ParseFloat(fields.waiverRadius) < 0
                                     THEN 0 ELSE ParseFloat(fields.waiverRadius)]

\* The click listener of the Cancel button (part_005:982-998)
CancelSite(s) ==
    UpdateLaunchSiteUI(
        IF SelectorValue(s) # "" THEN Request(s, [kind |-> "display", name |-> SelectorValue(s)])
        ELSE s,
        "INACTIVE")

\* deleteCurrentLaunchSite (part_005:335-354) after the user confirmed
DeleteCurrentLaunchSite(s) == Request(s, [kind |-> "delete", name |-> SelectorValue(s)])

\* deleteRequest.onsuccess (part_005:356-381): the option removed is the
\* last one.
AfterDelete(s, launchSiteName) ==
    IF Len(s.options) > 1
    THEN Request([s EXCEPT !.launchSiteNames = RemoveName(@, launchSiteName),
                           !.options = RemoveOption(@, Len(s.options) - 1),
                           !.selectedIndex = 0],
                 [kind |-> "display", name |-> s.options[1]])
    ELSE UpdateLaunchSiteUI(ResetLaunchSiteDisplay(s), "NOSAVES")

\* The change listener of the selector (part_005:1011-1033), up to its request
SelectSite(s, index) ==
    Request([s EXCEPT !.selectedIndex = index],
            [kind |-> "select", name |-> At(s.options, index)])

\* The oldest request is carried out and its onsuccess runs.  A listener
\* that is handed an undefined result throws and changes nothing.
Completed(s, request, record) ==
    IF request.kind = "add" THEN [s EXCEPT !.db = DbAdd(@, request.record)]
    ELSE IF request.kind = "delete"
    THEN AfterDelete([s EXCEPT !.db = DbDelete(@, request.name)], request.name)
    ELSE IF record = Undefined THEN s
    ELSE IF request.kind = "display"
    THEN [s EXCEPT !.fields = UpdateLaunchSiteDisplay(@, record)]
    ELSE IF request.kind = "select"
    THEN LET Shown(t) == IF record.elevation < 0 /\ ~NoLaunchSiteLocation(t.fields)
                         THEN RequestLaunchSiteElevation(t, record.latitude,
                                                         record.longitude, record.name)
                         ELSE t
         IN  Shown([s EXCEPT !.fields = UpdateLaunchSiteDisplay(@, record)])
    ELSE IF request.kind = "edit"
    THEN UpdateLaunchSiteUI([s EXCEPT !.db = DbPut(@, EditedRecord(record, request, s.fields))],
                            "INACTIVE")
    ELSE [s EXCEPT !.db = DbPut(@, [record EXCEPT !.elevation = MetersToFeet(request.meters)])]

\* The answer of a lookup (part_005:163-186): the field is given the
\* metres, the database is asked for the site.
ElevationAnswered(s, launchSiteName) ==
    Request([s EXCEPT !.fields.elevation = LookupMeters],
            [kind |-> "elevation", name |-> launchSiteName, meters |-> LookupMeters])

\* The page is loaded with the sites stored before (part_005:785-829): the
\* selector lists them and the fields show the first.
LoadedWith(db, names) ==
    IF names = <<>> THEN [NoSites EXCEPT !.db = db]
    ELSE [NoSites EXCEPT !.db = db, !.launchSiteNames = names, !.options = names,
                         !.selectedIndex = 0, !.status = "INACTIVE",
                         !.fields = UpdateLaunchSiteDisplay(LoadedFields, DbGet(db, names[1]))]

StoredSite(name) ==
    [name |-> name, latitude |-> 10, longitude |-> 30, elevation |-> 328,
     waiver_latitude |-> 360, waiver_longitude |-> 360, waiver_altitude |-> 0,
     waiver_radius |-> 5]

InitSites ==
    /\ pc = "sites"
    /\ rocketDetails = NewRocket("RocketBase", NaN, <<>>)
    /\ windForecast = WindForecastData(GroundWindJSON(0))
    /\ result = NoResult
    /\ apogeePoint = NoPoint
    /\ BatchIdle
    /\ args = <<>> /\ value = NaN /\ PageIdle
    /\ heap = NoHeap
    /\ times = NoTimes
    /\ sites \in {LoadedWith({}, <<>>),
                  LoadedWith({StoredSite("A"), StoredSite("B")}, <<"A", "B">>)}

otherThanSites == <<pc, rocketDetails, windForecast, result, apogeePoint, batchVars, args, value, runs, page, heap, times>>

Busy == Len(sites.requests) + Len(sites.lookups) >= MaxRequests

\* The user acts: what the action made of the launch sites, and what the
\* user did last.
UserDid(s, what) == [s EXCEPT !.after = what, !.steps = @ + 1]

CanAct == sites.steps < MaxSteps

\* The user types into a field that is enabled.
TypeIntoField ==
    /\ CanAct
    /\ sites.status # "INACTIVE"
    /\ \E typing \in Typings :
           /\ typing[1] = "name" => sites.status # "EDITING"
           /\ sites' = UserDid([sites EXCEPT !.fields[typing[1]] = typing[2]], "")
    /\ UNCHANGED otherThanSites

ClickSave ==
    /\ CanAct
    /\ sites.status # "INACTIVE"
    /\ ~Busy
    /\ sites' = UserDid(IF sites.status \in {"CREATING", "NOSAVES"}
                        THEN SaveNewSite(sites) ELSE SaveEditedSite(sites), "")
    /\ UNCHANGED otherThanSites

ClickNew ==
    /\ CanAct
    /\ sites.status = "INACTIVE"
    /\ sites' = UserDid(UpdateLaunchSiteUI(sites, "CREATING"), "")
    /\ UNCHANGED otherThanSites

ClickEdit ==
    /\ CanAct
    /\ sites.status = "INACTIVE"
    /\ sites' = UserDid(UpdateLaunchSiteUI(sites, "EDITING"), "edit")
    /\ UNCHANGED otherThanSites

ClickCancel ==
    /\ CanAct
    /\ sites.status \in {"CREATING", "EDITING"}
    /\ ~Busy
    /\ sites' = UserDid(CancelSite(sites),
                        IF sites.status = "EDITING" THEN "cancelled edit" ELSE "")
    /\ UNCHANGED otherThanSites

ClickDelete ==
    /\ CanAct
    /\ sites.status = "INACTIVE"
    /\ ~Busy
    /\ sites' = UserDid(DeleteCurrentLaunchSite(sites), "")
    /\ UNCHANGED otherThanSites

ChangeSelection ==
    /\ CanAct
    /\ sites.status = "INACTIVE"
    /\ ~Busy
    /\ \E index \in 0..(Len(sites.options) - 1) :
           /\ index # sites.selectedIndex
           /\ sites' = UserDid(SelectSite(sites, index), "")
    /\ UNCHANGED otherThanSites

RequestCompletes ==
    /\ sites.requests # <<>>
    /\ sites' = Completed([sites EXCEPT !.requests = Tail(@)], Head(sites.requests),
                          IF Head(sites.requests).kind \in {"add", "delete"} THEN Undefined
                          ELSE DbGet(sites.db, Head(sites.requests).name))
    /\ UNCHANGED otherThanSites

ElevationArrives ==
    /\ sites.lookups # <<>>
    /\ sites' = ElevationAnswered([sites EXCEPT !.lookups = Tail(@)], Head(sites.lookups))
    /\ UNCHANGED otherThanSites

ElevationFails ==
    /\ sites.lookups # <<>>
    /\ sites' = [sites EXCEPT !.lookups = Tail(@)]
    /\ UNCHANGED otherThanSites

NextSites ==
    \/ TypeIntoField \/ ClickSave \/ ClickNew \/ ClickEdit \/ ClickCancel
    \/ ClickDelete \/ ChangeSelection \/ RequestCompletes
    \/ ElevationArrives \/ ElevationFails

SpecSites == InitSites /\ [][NextSites]_vars

\* No request or lookup is under way.
Quiet == sites.requests = <<>> /\ sites.lookups = <<>>

StoredNames == {r.name : r \in sites.db}

\* The selector's entries that name a site: its options without the one
\* index.html wrote.
SiteEntries == SelectSeq(sites.options, LAMBDA o : o # NoSavesOption)

\* C18: after any sequence of Save, New, Edit, Cancel and Delete, once the
\* requests are carried out, the selector lists the names of the sites
\* stored in the database, each once: a delete removes the deleted site
\* and only it.
C18_SelectorListsStoredSites ==
    Quiet => /\ {SiteEntries[i] : i \in DOMAIN SiteEntries} = StoredNames
             /\ Len(SiteEntries) = Cardinality(StoredNames)


\* The site the selector has selected, as the database stores it.
SelectedSite == DbGet(sites.db, SelectorValue(sites))

\* A field shows a stored number: its text reads as that number, or it is
\* blank for a number that stands for none.
Shows(text, stored) ==
    \/ ParseFloat(text) = stored
    \/ text = Blank /\ stored \in {NotANumber, 360}

FieldsShow(fields, record) ==
    /\ fields.name = record.name
    /\ Shows(fields.latitude, record.latitude)
    /\ Shows(fields.longitude, record.longitude)
    /\ Shows(fields.elevation, record.elevation)
    /\ Shows(fields.waiverLatitude, record.waiver_latitude)
    /\ Shows(fields.waiverLongitude, record.waiver_longitude)
    /\ Shows(fields.waiverRadius, record.waiver_radius)
    /\ Shows(fields.waiverAltitude, record.waiver_altitude)

\* The last thing the user did was to cancel an edit of a stored site, and
\* the requests it led to are carried out.
EditCancelled ==
    /\ sites.after = "cancelled edit"
    /\ Quiet
    /\ SelectedSite # Undefined

\* C19: after Edit on a saved site, changes to its fields and Cancel, once
\* the requests are carried out every launch-site field shows what is
\* stored for the selected site, and the status is INACTIVE.
C19_CancelRestoresStoredSite ==
    EditCancelled => sites.status = "INACTIVE" /\ FieldsShow(sites.fields, SelectedSite)

\* The same without the waiver radius.
CancelRestoresAllButRadius ==
    EditCancelled =>
        /\ sites.status = "INACTIVE"
        /\ FieldsShow([sites.fields EXCEPT !.waiverRadius = SelectedSite.waiver_radius],
                      SelectedSite)

-----------------------------------------------------------------------------
(* main.js and launch.js: the launch date and times.  The text of a time   *)
(* input is the two digits of its hour (the minutes are not read), or      *)
(* empty.                                                                  *)

\* `${endHour}:00` with a leading 0 below 10
HourText(hour) == <<hour \div 10, hour % 10>>

\* parseInt(value.substring(0, 2)): NotANumber for the empty text
ParseHour(text) == IF Len(text) < 2 THEN NotANumber ELSE text[1] * 10 + text[2]

\* setEndTimeValue(endHour) (part_005:82-92)
SetEndTimeValue(t, endHour) ==
    [t EXCEPT !.endTime = IF endHour > 23 THEN HourText(0) ELSE HourText(endHour)]

\* The change listener of the start time (main.js:1073-1085), after the
\* input was given `text`.
StartTimeChanged(t, text) ==
    LET startHour == ParseHour(text)
        endHour == ParseHour(t.endTime)
        Changed(u) ==
            IF ~IsNumber(startHour) \/ ~IsNumber(endHour) THEN u
            ELSE IF endHour <= startHour THEN SetEndTimeValue(u, startHour + 1)
            ELSE IF endHour - startHour > 11 THEN SetEndTimeValue(u, startHour + 11)
            ELSE u
    IN  Changed([t EXCEPT !.startTime = text])

\* The hour of the day at which the page is used.
CurrentHour == 9

\* new LaunchTimeData(launchDateValue, startTimeValue, endTimeValue)
\* throws (launch.js:47-84)
LaunchTimeDataThrows(t) ==
    \/ ~IsNumber(ParseHour(t.startTime))
    \/ ~IsNumber(ParseHour(t.endTime))
    \/ ParseHour(t.endTime) < ParseHour(t.startTime)

\* Math.ceil((date - rightNow) / 3600000) for a date at a full hour, `days`
\* days from today (launch.js:87-95)
HourOffset(days, hour) == days * 24 + hour - CurrentHour

\* The offsets the loop of calculateLandingPlots asks forecasts for
\* (main.js:1436-1438)
RequestedOffsets(first, last) == [i \in 1..(last - first + 1) |-> first + i - 1]

\* calculateLandingPlots up to and with its loop (main.js:1351-1438): the
\* launch times are read and checked, and a forecast is asked for every
\* hour offset from the first to the last.
CalculatedWindow(t) ==
    IF LaunchTimeDataThrows(t) THEN [t EXCEPT !.outcome = "TypeError", !.requested = <<>>]
    ELSE IF HourOffset(t.launchDate, ParseHour(t.startTime)) < -24
            \/ HourOffset(t.launchDate, ParseHour(t.endTime)) > 380
    THEN [t EXCEPT !.outcome = "alert", !.requested = <<>>]
    ELSE [t EXCEPT !.outcome = "calculated",
                   !.requested = RequestedOffsets(HourOffset(t.launchDate, ParseHour(t.startTime)),
                                                  HourOffset(t.launchDate, ParseHour(t.endTime)))]

\* The texts a time input can be given and the launch dates (days from
\* today) chosen.
TimeTexts == {HourText(h) : h \in {0, 9, 12, 13, 23}} \cup {<<>>}

LaunchDates == {-2, 0, 16}

\* The page as loaded (part_005:770-779): the start time is the current
\* hour, the end time six hours later.
InitTimes ==
    /\ pc = "times"
    /\ rocketDetails = NewRocket("RocketBase", NaN, <<>>)
    /\ windForecast = WindForecastData(GroundWindJSON(0))
    /\ result = NoResult
    /\ apogeePoint = NoPoint
    /\ BatchIdle
    /\ args = <<>> /\ value = NaN /\ PageIdle
    /\ heap = NoHeap /\ sites = NoSites
    /\ times = SetEndTimeValue([NoTimes EXCEPT !.startTime = HourText(CurrentHour)],
                               CurrentHour + 6)

otherThanTimes == <<pc, rocketDetails, windForecast, result, apogeePoint, batchVars, args, value, runs, page, heap, sites>>

\* The launch date is changed: its listener only writes to the console
\* (main.js:1053-1070).
ChangeLaunchDate ==
    /\ \E days \in LaunchDates : times' = [times EXCEPT !.launchDate = days]
    /\ UNCHANGED otherThanTimes

ChangeStartTime ==
    /\ \E text \in TimeTexts : times' = StartTimeChanged(times, text)
    /\ UNCHANGED otherThanTimes

\* The end time is changed: no listener is registered for it.
ChangeEndTime ==
    /\ \E text \in TimeTexts : times' = [times EXCEPT !.endTime = text]
    /\ UNCHANGED otherThanTimes

ClickCalculate ==
    /\ times' = CalculatedWindow(times)
    /\ UNCHANGED otherThanTimes

NextTimes == ChangeLaunchDate \/ ChangeStartTime \/ ChangeEndTime \/ ClickCalculate

SpecTimes == InitTimes /\ [][NextTimes]_vars

\* C20: whatever the launch date, start time and end time were edited to,
\* a calculation asks for at most 12 hourly forecasts.
C20_WindowAtMostTwelveHours == Len(times.requested) <= 12

\* The same for the end times the listener of the start time sets.
StartTimeKeepsWindow ==
    [][ChangeStartTime /\ IsNumber(ParseHour(times'.endTime)) /\ IsNumber(ParseHour(times'.startTime))
        => ParseHour(times'.endTime) - ParseHour(times'.startTime) <= 11]_vars


-----------------------------------------------------------------------------
(* The descent schedule of driftSimulation *)

\* A descent schedule was built: the call got past the band search and
\* pushed the apogee step.
ScheduleBuilt == Done /\ Steps # <<>>

\* The altitudes of the schedule fall strictly from each step to the next.
StrictlyDescending(steps) ==
    \A i \in 1..(Len(steps) - 1) : RGt(steps[i].altitude, steps[i + 1].altitude)

\* C21: whenever a descent schedule is built, its step altitudes are
\* strictly decreasing from the first step (the apogee) to the last: no two
\* steps share an altitude and no step lies above its predecessor.
C21_ScheduleStrictlyDescending == ScheduleBuilt => StrictlyDescending(Steps)

\* The main deployment altitude lies strictly inside a wind band, below the
\* apogee, in dual deployment.
DeploymentInsideBandBelowApogee ==
    /\ UsingDualDeployment(rocketDetails)
    /\ RLt(rocketDetails.mainDeployAltitude, result.apogee)
    /\ \E i \in 1..(Len(Samples) - 1) :
           /\ RLt(Samples[i].altitude, rocketDetails.mainDeployAltitude)
           /\ RLt(rocketDetails.mainDeployAltitude, Samples[i + 1].altitude)

\* The steps of the schedule at the main deployment altitude.
DeploymentSteps ==
    {i \in DOMAIN Steps : REq(Steps[i].altitude, rocketDetails.mainDeployAltitude)}

\* C22: in dual deployment with the main deployment altitude strictly
\* inside a wind band below the apogee, the schedule of a result has a step
\* at the deployment altitude, every segment at or above that altitude is
\* integrated with the drogue rate, every segment at or below it with the
\* main rate, and no segment spans the deployment altitude.
C22_DeploymentInsideBand ==
    (Done /\ DeploymentInsideBandBelowApogee /\ result.outcome = "result") =>
        /\ Cardinality(DeploymentSteps) = 1
        /\ Len(result.drifts) = Len(Steps) - 1
        /\ \A x \in DOMAIN result.drifts :
               /\ RGe(Steps[x + 1].altitude, rocketDetails.mainDeployAltitude)
                      => result.drifts[x].decentRate = rocketDetails.descentRateDrogue
               /\ RLe(Steps[x].altitude, rocketDetails.mainDeployAltitude)
                      => result.drifts[x].decentRate = rocketDetails.descentRateMain
               /\ ~(/\ RGt(Steps[x].altitude, rocketDetails.mainDeployAltitude)
                    /\ RLt(Steps[x + 1].altitude, rocketDetails.mainDeployAltitude))

C22_Witness ==
    /\ Done /\ DeploymentInsideBandBelowApogee /\ result.outcome = "result"
    /\ rocketDetails.descentRateMain # rocketDetails.descentRateDrogue
    /\ Len(Samples) = 3
    /\ \E x \in DOMAIN result.drifts :
           /\ x + 1 \in DOMAIN result.drifts
           /\ REq(Steps[x + 1].altitude, rocketDetails.mainDeployAltitude)
           /\ result.drifts[x].moved /\ result.drifts[x + 1].moved
           /\ result.drifts[x].decentRate = rocketDetails.descentRateDrogue
           /\ result.drifts[x + 1].decentRate = rocketDetails.descentRateMain

-----------------------------------------------------------------------------
(* wind.js (newer revision, src/unnamed/part_003): the forecast of one hour *)
(* built from an Open-Meteo response.  altitudeWinds and pressureWinds are  *)
(* the samples the response held for the hour, in the order of              *)
(* openMeteoWindAltitudes and openMeteoPressureLevels.                      *)

\* new WindForecastData() (part_003:114-120)
EmptyForecast ==
    [model |-> "", windData |-> <<>>, groundElevation |-> R(0),
     groundWindSpeed |-> R(0), groundWindDirection |-> R(0)]

\* What the two loops of getOpenMeteoWindPredictionData start from
\* (part_003:464-468).
NoWindList ==
    [windList |-> <<>>, groundWindSpeed |-> R(0), groundWindDirection |-> R(0),
     highestWindAltitude |-> R(-1)]

\* The sample at altitude 0 put in front of the first sample used
\* (part_003:473-478, 489-494).
WithGroundSample(st, wind) ==
    IF Len(st.windList) = 0
    THEN [st EXCEPT !.groundWindSpeed = wind.windSpeed,
                    !.groundWindDirection = wind.windDirection,
                    !.windList = <<WindAtAltitude(R(0), wind.windSpeed, wind.windDirection)>>]
    ELSE st

RECURSIVE AddAltitudeWinds(_, _)
\* for (const altWind of altitudeWinds) (part_003:471-481)
AddAltitudeWinds(st, altitudeWinds) ==
    IF altitudeWinds = <<>> THEN st
    ELSE AddAltitudeWinds(
             [WithGroundSample(st, Head(altitudeWinds))
                 EXCEPT !.windList = Append(@, Head(altitudeWinds)),
                        !.highestWindAltitude = Head(altitudeWinds).altitude],
             Tail(altitudeWinds))

RECURSIVE AddPressureWinds(_, _)
\* for (const presWind of pressureWinds) (part_003:484-495): a sample at or
\* below the highest altitude-based sample is ignored.
AddPressureWinds(st, pressureWinds) ==
    IF pressureWinds = <<>> THEN st
    ELSE IF RLe(Head(pressureWinds).altitude, st.highestWindAltitude)
    THEN AddPressureWinds(st, Tail(pressureWinds))
    ELSE AddPressureWinds(
             [WithGroundSample(st, Head(pressureWinds))
                 EXCEPT !.windList = Append(@, Head(pressureWinds))],
             Tail(pressureWinds))

\* loadOpenMeteoData(elevation, groundSpeed, groundDirection, windArray)
\* on a new WindForecastData (part_003:187-193)
LoadOpenMeteoData(elevation, groundSpeed, groundDirection, windArray) ==
    [EmptyForecast EXCEPT !.model = "Open-Meteo", !.groundElevation = elevation,
                          !.groundWindSpeed = groundSpeed,
                          !.groundWindDirection = groundDirection,
                          !.windData = windArray]

\* The forecast of one hour (part_003:464-498).
HourForecast(groundElevation, altitudeWinds, pressureWinds) ==
    LET Loaded(st) ==
            LoadOpenMeteoData(groundElevation, st.groundWindSpeed,
                              st.groundWindDirection, st.windList)
    IN  Loaded(AddPressureWinds(AddAltitudeWinds(NoWindList, altitudeWinds),
                                pressureWinds))

\* The most pressure levels an hour of a response holds samples for.
MaxLevels == 4

\* The wind a response holds at an altitude (feet above the ground).
WindAt(alt) ==
    IF alt = 0 THEN WindAtAltitude(R(alt), R(0), R(90))
    ELSE IF alt < 1000 THEN WindAtAltitude(R(alt), R(10), R(350))
    ELSE WindAtAltitude(R(alt), R(10), R(10))

\* The samples at fixed heights above the ground an hour holds: none, or
\* one (taken at 250 ft; the heights asked for are 10, 80 and 120 m).
AltitudeWindLists == {<<>>, <<WindAt(250)>>}

\* The samples at pressure levels an hour holds: the heights come from the
\* response, in any order.
PressureWindLists ==
    {[i \in DOMAIN a |-> WindAt(a[i])] : a \in SeqsUpTo(Altitudes, MaxLevels)}

ApogeeRockets == {NewRocket("RocketApogee", R(a), <<>>) : a \in Apogees}

InitOpenMeteo ==
    /\ pc = "hourly"
    /\ rocketDetails \in ApogeeRockets
    /\ windForecast = EmptyForecast
    /\ result = NoResult
    /\ apogeePoint = NoPoint
    /\ BatchIdle
    /\ OthersIdle

\* One turn of the loop over the hours of getOpenMeteoWindPredictionData
\* (part_003:396-498): the forecast of the hour is built.
BuildHourForecast ==
    /\ pc = "hourly"
    /\ \E altitudeWinds \in AltitudeWindLists, pressureWinds \in PressureWindLists :
           windForecast' = HourForecast(R(0), altitudeWinds, pressureWinds)
    /\ pc' = "new"
    /\ UNCHANGED <<rocketDetails, result, apogeePoint, batchVars>>
    /\ UNCHANGED otherVars

NextOpenMeteo ==
    \/ BuildHourForecast
    \/ CallSetSingleDeployment
    \/ CallSetDualDeployment
    \/ CallDriftSimulation

SpecOpenMeteo == InitOpenMeteo /\ [][NextOpenMeteo]_vars

\* The profile has consecutive samples of non-increasing altitude.
DegenerateBand ==
    \E i \in 1..(Len(Samples) - 1) : RLe(Samples[i + 1].altitude, Samples[i].altitude)

\* The apogee lies above the lowest sample and, in dual deployment, the
\* main deployment altitude below the apogee.
DescentBelowApogee ==
    /\ Samples # <<>> /\ RLt(LowestSample, result.apogee)
    /\ UsingDualDeployment(rocketDetails)
           => RLt(rocketDetails.mainDeployAltitude, result.apogee)

\* C23: for a wind profile with consecutive samples of non-increasing
\* altitude, no wind band query divides by a band height of zero and every
\* descent segment integrated has a strictly positive descent distance.
C23_DegenerateBandsSkipped ==
    (Done /\ DegenerateBand) =>
        /\ \A i \in DOMAIN result.queries : result.queries[i].percentage.d # 0
        /\ \A i \in DOMAIN result.drifts :
               RGt(result.drifts[i].descentDistance, R(0))

\* The second half of C23 for the calls whose apogee and deployment
\* altitude give a strictly descending schedule on an ascending profile
\* (this is violated as well: the skipped band alone breaks the descent).
DegenerateBandsSkippedBelowApogee ==
    (Done /\ DegenerateBand /\ DescentBelowApogee) =>
        \A i \in DOMAIN result.drifts :
            RGt(result.drifts[i].descentDistance, R(0))

\* The first half of C23, which holds: no wind band query divides by a
\* band height of zero.
NoDivisionByZeroHeight ==
    Done => \A i \in DOMAIN result.queries : result.queries[i].percentage.d # 0

\* The altitudes of a profile rise strictly from each sample to the next.
StrictlyAscending(windData) ==
    \A i \in 1..(Len(windData) - 1) : RLt(windData[i].altitude, windData[i + 1].altitude)

\* The forecast of the hour has been built and is the one driftSimulation
\* is, or was, called with.
ForecastBuilt == pc \in {"new", "configured", "done"}

\* C27: every wind profile handed to the simulator has at least one sample
\* and strictly increasing sample altitudes, without duplicates, whatever the
\* response held.
C27_ProfileAscending ==
    ForecastBuilt => (Len(Samples) >= 1 /\ StrictlyAscending(Samples))

\* The half of C27 that holds for the profiles the WindForecastData
\* constructor builds from a winds-aloft response (under Spec).
ConstructedProfileAscending == StrictlyAscending(Samples)

-----------------------------------------------------------------------------
(* wind.js: a winds-aloft response that tells the wind at the ground is     *)
(* loaded and the rocket's weathercocking is worked out with it.  args is   *)
(* the response.                                                            *)

\* Ground wind speeds (knots) and directions (degrees) of the responses.
GroundSpeedsTold == {0, 5, 10, 90}

GroundDirectionsTold == {0, 90, 270}

\* A response that tells the speed and the direction of the wind at the
\* ground.
GroundResponse(groundSpd, groundDir) ==
    [model |-> "RAP", alts |-> <<>>,
     speed |-> [x \in Altitudes |-> R(0)],
     direction |-> [x \in Altitudes |-> R(0)],
     groundSpd |-> R(groundSpd), groundDir |-> R(groundDir), groundElev |-> R(0)]

InitLoad ==
    /\ pc = "fetched"
    /\ rocketDetails \in WeathercockRockets
    /\ windForecast = EmptyForecast
    /\ result = NoResult
    /\ apogeePoint = NoPoint
    /\ BatchIdle
    /\ args \in {GroundResponse(s, d) : s \in GroundSpeedsTold, d \in GroundDirectionsTold}
    /\ value = NaN
    /\ PageIdle
    /\ RestIdle

\* new WindForecastData(windJSON) (wind.js:112-164), in the newer revision
\* windForecast.loadWindsAloftData(windJSON) (part_003:126-178, 295-296)
LoadWindsAloftData ==
    /\ pc = "fetched"
    /\ windForecast' = WindForecastData(args)
    /\ pc' = "new"
    /\ UNCHANGED <<rocketDetails, result, apogeePoint, batchVars>>
    /\ UNCHANGED otherVars

NextLoad == LoadWindsAloftData \/ CallWeathercockAdjustment

SpecLoad == InitLoad /\ [][NextLoad]_vars

\* C28: once a response that tells the ground wind's speed and direction is
\* loaded, the forecast's groundWindDirection is the direction the response
\* told (not the speed), and the weathercock displacement is projected along
\* that direction.
C28_GroundDirectionLoaded ==
    (pc \in {"new", "done"}) =>
        /\ windForecast.groundWindDirection = args.groundDir
        /\ \A i \in DOMAIN apogeePoint.location.moves :
               apogeePoint.location.moves[i].bearing = args.groundDir

\* What holds instead: the forecast's groundWindDirection is the ground
\* wind speed.
GroundDirectionIsGroundSpeed ==
    (pc \in {"new", "done"}) => windForecast.groundWindDirection = args.groundSpd

-----------------------------------------------------------------------------
(* The order of the hours of a batch run *)

\* The forecast of hour currentOffset has been asked for and is awaited;
\* it is the only request of the run under way.
FetchOutstanding == pc = "awaiting"

\* The hours before currentOffset have each been simulated or skipped.
EarlierHoursDone ==
    /\ Len(hourLog) = currentOffset
    /\ \A k \in DOMAIN hourLog : hourLog[k] \in {"result", "continue"}

\* The step asks for the forecast of the next hour.
FetchIssued == pc' = "awaiting" /\ currentOffset' # currentOffset

\* The step ends the turn of the loop for the hour whose forecast was
\* awaited: the forecast arrived and the hour was simulated or skipped.
HourCompleted ==
    /\ pc = "awaiting"
    /\ currentOffset' = currentOffset + 1
    /\ Len(hourLog') = Len(hourLog) + 1
    /\ hourLog'[Len(hourLog')] \in {"result", "continue"}

\* C24: within a batch run the hours are gone through one after the other:
\* while the forecast of hour k is awaited every earlier hour has been
\* simulated or skipped, and the forecast of the next hour is asked for
\* only in the step that completes hour k, so that no two requests of the
\* run are under way together.
C24_HoursSequential ==
    /\ [](FetchOutstanding => EarlierHoursDone)
    /\ [][(pc # "idle" /\ FetchIssued) => HourCompleted]_vars

C24_Witness ==
    /\ FetchOutstanding
    /\ currentOffset = 2
    /\ hourLog = <<"result", "continue">>

-----------------------------------------------------------------------------
(* main.js: weathercockAdjustment of the page and what calculateLandingPlots *)
(* makes of the altitude it returns, called on its own.  args is            *)
(* [revision, windDirection, windSpeed, weathercockData, rocketApogee]:     *)
(* revision tells the older main.js from the newer (src/unnamed/part_005).  *)

\* weathercockAdjustment(apogeeLocation, windDirection, windSpeed,
\* weathercockData) of the newer main.js (part_005:1363-1406): the altitude
\* returned and apogeeLocation after the call.
NewerWeathercockAdjustment(apogeeLocation, windDirection, windSpeed, weathercockData) ==
    IF Len(weathercockData) = 0
    THEN [apogeeAltitude |-> R(-1), apogeeLocation |-> apogeeLocation]
    ELSE IF RLe(windSpeed, At(weathercockData, 0).windSpeed)
    THEN [apogeeAltitude |-> At(weathercockData, 0).apogee,
          apogeeLocation |->
              IF RGt(At(weathercockData, 0).upwindDistance, R(0))
              THEN MoveAlongBearing(apogeeLocation,
                       FeetToMeters(At(weathercockData, 0).upwindDistance),
                       windDirection)
              ELSE apogeeLocation]
    ELSE IF RGt(windSpeed, At(weathercockData, Len(weathercockData) - 1).windSpeed)
    THEN [apogeeAltitude |-> At(weathercockData, 0).apogee,
          apogeeLocation |->
              MoveAlongBearing(apogeeLocation,
                  FeetToMeters(At(weathercockData, Len(weathercockData) - 1).upwindDistance),
                  windDirection)]
    ELSE MainWeathercockAdjustment(apogeeLocation, windDirection, windSpeed,
                                   weathercockData)

\* The altitude the descent of the hour starts from (main.js:1503-1506,
\* part_005:1569-1572): the entered apogee when weathercockAdjustment
\* returned 0 or less.
DescentStart(rocketAltitude, rocketApogee) ==
    IF RLe(rocketAltitude, R(0)) THEN rocketApogee ELSE rocketAltitude

\* The rounded ground wind speeds (MPH) the driver calls with.
DriverWindSpeeds == {0, 3, 5, 8, 10, 12, 23}

DriverArgs ==
    {[revision |-> rev, windDirection |-> R(d), windSpeed |-> R(s),
      weathercockData |-> LoadWeathercockData(1000, inputs), rocketApogee |-> R(1000)] :
        rev \in {"main.js", "part_005"}, d \in {90, 270}, s \in DriverWindSpeeds,
        inputs \in TableInputs}

InitDriver ==
    /\ pc = "new"
    /\ rocketDetails = NewRocket("RocketBase", NaN, <<>>)
    /\ windForecast = WindForecastData(GroundWindJSON(0))
    /\ result = NoResult
    /\ apogeePoint = NoPoint
    /\ BatchIdle
    /\ args \in DriverArgs
    /\ value = NaN
    /\ PageIdle
    /\ RestIdle

\* What the step of the driver leaves: the adjusted apogee (its altitude as
\* returned, its location as moved) and the altitude the descent starts from.
Adjusted(adjusted) ==
    /\ apogeePoint' = [altitude |-> adjusted.apogeeAltitude,
                       location |-> adjusted.apogeeLocation]
    /\ value' = DescentStart(adjusted.apogeeAltitude, args.rocketApogee)
    /\ pc' = "done"
    /\ UNCHANGED <<rocketDetails, windForecast, result, batchVars, args,
                   runs, page, restVars>>

\* rocketAltitude = weathercockAdjustment(rocketLocation, ...) and the
\* fallback after it, in the older main.js (main.js:1498-1507)
CallMainWeathercockAdjustment ==
    /\ pc = "new" /\ args.revision = "main.js"
    /\ Adjusted(MainWeathercockAdjustment(GetCopy(LaunchPad), args.windDirection,
                                          args.windSpeed, args.weathercockData))

\* The same in the newer main.js (part_005:1564-1573)
CallNewerWeathercockAdjustment ==
    /\ pc = "new" /\ args.revision = "part_005"
    /\ Adjusted(NewerWeathercockAdjustment(GetCopy(LaunchPad), args.windDirection,
                                           args.windSpeed, args.weathercockData))

NextDriver == CallMainWeathercockAdjustment \/ CallNewerWeathercockAdjustment

SpecDriver == InitDriver /\ [][NextDriver]_vars

\* The last entry of the table of the call, the one with the highest speed
\* (loadWeathercockData fills the table in ascending order of speed).
DriverHighestEntry == At(args.weathercockData, Len(args.weathercockData) - 1)

\* The ground wind of the call is faster than the highest entry.
DriverAboveTable == RGt(args.windSpeed, DriverHighestEntry.windSpeed)

\* C25: in the page's batch driver, for a non-empty table and a ground wind
\* faster than the table's highest entry, weathercockAdjustment returns the
\* apogee of the highest entry, moves the apogee location by the upwind
\* distance of that entry, and the descent starts from that apogee.
C25_DriverClampsToHighestEntry ==
    (pc = "done" /\ DriverAboveTable) =>
        /\ apogeePoint.altitude = DriverHighestEntry.apogee
        /\ apogeePoint.location =
               MoveAlongBearing(LaunchPad,
                   FeetToMeters(DriverHighestEntry.upwindDistance), args.windDirection)
        /\ value = DriverHighestEntry.apogee

\* What the newer driver gets right: above the table the location is moved
\* by the upwind distance of the highest entry.
NewerDriverClampsDistance ==
    (pc = "done" /\ DriverAboveTable /\ args.revision = "part_005") =>
        apogeePoint.location =
            MoveAlongBearing(LaunchPad,
                FeetToMeters(DriverHighestEntry.upwindDistance), args.windDirection)

-----------------------------------------------------------------------------
(* Properties of the weathercock table between two of its entries *)

\* The ground wind speed (MPH) the table is read at.
TableWindSpeed == RMul(KnotsToMph, windForecast.groundWindSpeed)

\* The entries i - 1 and i of the table bracket the ground wind speed.
Brackets(i) ==
    /\ RLt(At(rocketDetails.weathercockData, i - 1).windSpeed, TableWindSpeed)
    /\ RLe(TableWindSpeed, At(rocketDetails.weathercockData, i).windSpeed)

\* The value at speed s on the straight line from (lo.windSpeed, vlo) to
\* (hi.windSpeed, vhi).
OnLine(s, lo, hi, vlo, vhi) ==
    RAdd(vlo, RDiv(RMul(RSub(s, lo.windSpeed), RSub(vhi, vlo)),
                   RSub(hi.windSpeed, lo.windSpeed)))

Between(x, a, b) == (RLe(a, x) /\ RLe(x, b)) \/ (RLe(b, x) /\ RLe(x, a))

\* The apogee location is the launch location displaced by `feet`.
DisplacedBy(feet) ==
    IF REq(feet, R(0)) THEN apogeePoint.location = LaunchPad
    ELSE /\ Len(apogeePoint.location.moves) = 1
         /\ apogeePoint.location.moves[1].meters = FeetToMeters(feet)

\* What C26 asks of a call for the entries lo and hi that bracket the speed.
InterpolatedBetween(lo, hi) ==
    /\ apogeePoint.altitude = OnLine(TableWindSpeed, lo, hi, lo.apogee, hi.apogee)
    /\ DisplacedBy(OnLine(TableWindSpeed, lo, hi, lo.upwindDistance, hi.upwindDistance))
    /\ Between(apogeePoint.altitude, lo.apogee, hi.apogee)
    /\ REq(TableWindSpeed, hi.windSpeed) =>
           /\ apogeePoint.altitude = hi.apogee
           /\ DisplacedBy(hi.upwindDistance)

\* C26: for a table sorted by speed and a ground wind speed s with
\* entry[i-1].speed < s <= entry[i].speed, weathercockAdjustment returns the
\* apogee and the upwind displacement of the straight line between the two
\* entries at s: the values of entry[i] at s = entry[i].speed, and values
\* between those of the two entries throughout.
C26_InterpolatesBetweenEntries ==
    pc = "done" =>
        \A i \in 1..(Len(rocketDetails.weathercockData) - 1) :
            Brackets(i) => InterpolatedBetween(At(rocketDetails.weathercockData, i - 1),
                                               At(rocketDetails.weathercockData, i))

C26_Witness ==
    /\ pc = "done"
    /\ Len(rocketDetails.weathercockData) = 3
    /\ Brackets(2)
    /\ ~REq(TableWindSpeed, At(rocketDetails.weathercockData, 2).windSpeed)
    /\ At(rocketDetails.weathercockData, 1).apogee # At(rocketDetails.weathercockData, 2).apogee
    /\ RLt(At(rocketDetails.weathercockData, 2).apogee, apogeePoint.altitude)
    /\ RLt(apogeePoint.altitude, At(rocketDetails.weathercockData, 1).apogee)
    /\ Len(apogeePoint.location.moves) = 1

\* A call at the speed of an entry.
AtEntrySpeed ==
    /\ pc = "done"
    /\ Len(rocketDetails.weathercockData) >= 2
    /\ Brackets(1)
    /\ REq(TableWindSpeed, At(rocketDetails.weathercockData, 1).windSpeed)
    /\ apogeePoint.altitude = At(rocketDetails.weathercockData, 1).apogee

-----------------------------------------------------------------------------
(* Properties of getAverageWindDirection inside a band *)

\* getAverageWindDirection has returned for a band whose floor and ceiling
\* directions differ by more than 180 degrees as numbers.
StraddlingBandAveraged ==
    /\ pc = "done" /\ args.call = "bandDirection"
    /\ RGt(RAbs(RSub(args.d0, args.d1)), R(180))

\* x lies on the shorter arc between the directions a and b.
OnShorterArc(x, a, b) == RAdd(ArcLength(x, a), ArcLength(x, b)) = ArcLength(a, b)

\* C30: for a band whose floor and ceiling directions straddle north and
\* every share of the band in [0, 1], getAverageWindDirection returns a
\* direction in [0, 360) on the shorter arc between the two directions.
C30_BandDirectionOnShorterArc ==
    StraddlingBandAveraged =>
        /\ RGe(value, R(0)) /\ RLt(value, R(360))
        /\ OnShorterArc(value, args.d0, args.d1)

\* What holds: the claim at the floor and at the ceiling of the band.
BandEndsOnShorterArc ==
    (StraddlingBandAveraged /\ args.fraction \in {R(0), R(1)}) =>
        /\ RGe(value, R(0)) /\ RLt(value, R(360))
        /\ OnShorterArc(value, args.d0, args.d1)


\* The no-saved-sites state of the user interface: the status that leaves
\* the fields editable and offers Save alone (part_005:407-418), with the
\* fields resetLaunchSiteDisplay clears (part_005:508-516) empty.
NoSavedSites(s) ==
    /\ s.status = "NOSAVES"
    /\ s.fields.name = ""
    /\ s.fields.latitude = Blank /\ s.fields.longitude = Blank
    /\ s.fields.waiverLatitude = Blank /\ s.fields.waiverLongitude = Blank
    /\ s.fields.waiverRadius = Blank

\* The database carries out the delete of the only site it stores.
LastSiteDeleted ==
    /\ sites.requests # <<>>
    /\ Head(sites.requests).kind = "delete"
    /\ StoredNames = {Head(sites.requests).name}
    /\ sites'.db = {}

\* C29: when the delete of the only stored launch site succeeds, the user
\* interface returns to the no-saved-sites state (status NOSAVES, fields
\* cleared), whether the site was loaded with the page or saved during
\* the session from the no-saved-sites state.
C29_DeleteLastSiteGivesNoSaves == [][LastSiteDeleted => NoSavedSites(sites')]_vars

\* The same for a selector that no longer holds the option index.html
\* wrote: the sites were loaded with the page, or saved after an earlier
\* return to the no-saved-sites state.
DeleteLastListedSiteGivesNoSaves ==
    [][(LastSiteDeleted /\ ~InList(sites.options, NoSavesOption)) => NoSavedSites(sites')]_vars

\* The last stored site was deleted and the interface returned to the
\* no-saved-sites state.
ReturnedToNoSaves == sites.steps > 0 /\ sites.db = {} /\ NoSavedSites(sites) /\ sites.options = <<>>

====
